---- MODULE Spec2Model ----
(***************************************************************************)
(* A model of cxxopts (artpaul/cxxopts): the value converters, the option  *)
(* registry, the argument grammar and the parse engine of                  *)
(* src/src/cxxopts.cpp and src/include/cxxopts.hpp.                        *)
(*                                                                         *)
(* A std::string is a sequence of one-character strings, so that the       *)
(* character loops of the source can be followed character by character.   *)
(***************************************************************************)
EXTENDS Integers, Sequences, FiniteSets, TLC

(***************************************************************************)
(* Bounds of the model.                                                    *)
(***************************************************************************)
\* Number of tokens after the program name in an argv of the re-parse model.
MaxArgs == 2
\* Number of parse calls made on one registry.
MaxParses == 2
\* Number of tokens after the program name in an argv of the grammar model.
MaxArgsOne == 2
\* Width in bits of the accumulator that stands for uint64_t in parse_uint64.
AccBits == 16

(***************************************************************************)
(* Characters.                                                             *)
(***************************************************************************)
DecChars == <<"0", "1", "2", "3", "4", "5", "6", "7", "8", "9">>
LowerHex == <<"a", "b", "c", "d", "e", "f">>
UpperHex == <<"A", "B", "C", "D", "E", "F">>
Letters == {"a", "b", "c", "d", "e", "f", "g", "h", "i", "j", "k", "l", "m",
            "n", "o", "p", "q", "r", "s", "t", "u", "v", "w", "x", "y", "z",
            "A", "B", "C", "D", "E", "F", "T"}

Range(s) == {s[i] : i \in DOMAIN s}

IsDigit(c) == c \in Range(DecChars)

\* isalnum() of <cctype> on the characters the model uses.
isalnum(c) == IsDigit(c) \/ c \in Letters

IndexOf(s, c) == CHOOSE i \in DOMAIN s : s[i] = c

Pow2(n) == 2 ^ n

(***************************************************************************)
(* detail::parse_uint64: the digit loops and their wrap-around check.      *)
(***************************************************************************)
\* The value of one digit, or -1 when the character is no digit of the base.
DigitOf(c, base) ==
  IF IsDigit(c) THEN IndexOf(DecChars, c) - 1
  ELSE IF base = 16 /\ c \in Range(LowerHex) THEN IndexOf(LowerHex, c) + 9
  ELSE IF base = 16 /\ c \in Range(UpperHex) THEN IndexOf(UpperHex, c) + 9
  ELSE -1

RECURSIVE AccumulateDigits(_, _, _)
AccumulateDigits(s, base, value) ==
  IF s = <<>> THEN [ok |-> TRUE, value |-> value]
  ELSE LET digit == DigitOf(Head(s), base)
           next == (value * base + digit) % Pow2(AccBits)
       IN IF digit < 0 THEN [ok |-> FALSE, value |-> value]
          ELSE IF value > next THEN [ok |-> FALSE, value |-> value]
          ELSE AccumulateDigits(Tail(s), base, next)

\* What parse_uint64 hands back: the accumulated magnitude and the sign.
parse_uint64_result(r, negative) ==
  [ok |-> r.ok, value |-> r.value, negative |-> negative]

parse_uint64(text) ==
  IF text = <<>> THEN [ok |-> FALSE, value |-> 0, negative |-> FALSE]
  ELSE LET negative == Head(text) = "-"
           p == IF Head(text) \in {"+", "-"} THEN Tail(text) ELSE text
           hex == Len(p) >= 2 /\ p[1] = "0" /\ p[2] = "x"
       IN IF p = <<>> \/ (hex /\ Len(p) = 2)
          THEN [ok |-> FALSE, value |-> 0, negative |-> negative]
          ELSE parse_uint64_result(
                 AccumulateDigits(IF hex THEN SubSeq(p, 3, Len(p)) ELSE p,
                                  IF hex THEN 16 ELSE 10, 0),
                 negative)

(***************************************************************************)
(* detail::integer_parser<T> for the integer types of the model.           *)
(***************************************************************************)
\* int8_t and uint8_t, and the types as wide as the accumulator of
\* parse_uint64: int64_t and uint64_t, AccBits wide here.
NarrowTypes == {"int8", "uint8"}
WideTypes == {"int64", "uint64"}
IntTypes == NarrowTypes \cup WideTypes
TypeBits(T) == IF T \in WideTypes THEN AccBits ELSE 8
TypeSigned(T) == T \in {"int8", "int64"}

\* signed_check that lets the magnitude of the minimum pass with any sign.
check_signed_range_any_sign(T, u, negative) ==
  IF TypeSigned(T) THEN Pow2(TypeBits(T) - 1) >= u ELSE TRUE

\* signed_check<T, is_signed>: u is the magnitude as make_unsigned<T>.
check_signed_range(T, u, negative) ==
  IF TypeSigned(T)
  THEN (Pow2(TypeBits(T) - 1) >= u /\ negative) \/ (Pow2(TypeBits(T) - 1) - 1 >= u)
  ELSE TRUE

\* The checks of integer_parser on what parse_uint64 gave: the range of
\* make_unsigned<T>, the signed range, and the negation.
integer_parser_checked(T, r) ==
  IF ~r.ok THEN [ok |-> FALSE, v |-> 0]
  ELSE IF r.value > Pow2(TypeBits(T)) - 1 THEN [ok |-> FALSE, v |-> 0]
  ELSE IF ~check_signed_range(T, r.value, r.negative) THEN [ok |-> FALSE, v |-> 0]
  ELSE IF r.negative
       THEN IF TypeSigned(T)
            THEN [ok |-> TRUE, v |-> -(r.value - 1) - 1]
            ELSE [ok |-> FALSE, v |-> 0]
       ELSE [ok |-> TRUE, v |-> r.value]

integer_parser(T, text) == integer_parser_checked(T, parse_uint64(text))

(***************************************************************************)
(* detail::parse_value for bool, char and std::string.                     *)
(***************************************************************************)
parse_bool(text) ==
  IF Len(text) = 1 /\ text[1] \in {"1", "t", "T"} THEN [ok |-> TRUE, v |-> TRUE]
  ELSE IF Len(text) = 1 /\ text[1] \in {"0", "f", "F"} THEN [ok |-> TRUE, v |-> FALSE]
  ELSE IF Len(text) = 4 /\ text[1] \in {"t", "T"}
          /\ SubSeq(text, 2, 4) = <<"r", "u", "e">> THEN [ok |-> TRUE, v |-> TRUE]
  ELSE IF Len(text) = 5 /\ text[1] \in {"f", "F"}
          /\ SubSeq(text, 2, 5) = <<"a", "l", "s", "e">> THEN [ok |-> TRUE, v |-> FALSE]
  ELSE [ok |-> FALSE, v |-> FALSE]

parse_char(text) ==
  IF Len(text) # 1 THEN [ok |-> FALSE, v |-> ""] ELSE [ok |-> TRUE, v |-> text[1]]

parse_string(text) == [ok |-> TRUE, v |-> text]

(***************************************************************************)
(* Value types.  A type is a sequence: <<"int8">> is int8_t,               *)
(* <<"vec", "int8">> is std::vector<int8_t>, and so on.                    *)
(***************************************************************************)
is_container(type) == Head(type) = "vec"

\* T{} : the value a freshly made storage holds.
DefaultConstructed(type) ==
  IF is_container(type) THEN <<>>
  ELSE IF Head(type) = "bool" THEN FALSE
  ELSE IF Head(type) \in IntTypes THEN 0
  ELSE IF Head(type) = "char" THEN ""
  ELSE <<>>

\* detail::parse_value(text, value) for a scalar T.
parse_value(type, text) ==
  IF Head(type) = "bool" THEN parse_bool(text)
  ELSE IF Head(type) \in IntTypes THEN integer_parser(Head(type), text)
  ELSE IF Head(type) = "char" THEN parse_char(text)
  ELSE parse_string(text)

\* getline that ends a segment at a comma too, whatever the delimiter.
RECURSIVE SplitOn_comma_too(_, _, _)
SplitOn_comma_too(text, delimiter, token) ==
  IF text = <<>> THEN <<token>>
  ELSE IF Head(text) = delimiter \/ Head(text) = ","
       THEN IF Tail(text) = <<>> THEN <<token>>
            ELSE <<token>> \o SplitOn_comma_too(Tail(text), delimiter, <<>>)
       ELSE SplitOn_comma_too(Tail(text), delimiter, Append(token, Head(text)))

\* std::getline(in, token, delimiter) until eof: the segments between
\* delimiters; nothing is produced after a delimiter that ends the text.
RECURSIVE SplitOn(_, _, _)
SplitOn(text, delimiter, token) ==
  IF text = <<>> THEN <<token>>
  ELSE IF Head(text) = delimiter
       THEN IF Tail(text) = <<>> THEN <<token>>
            ELSE <<token>> \o SplitOn(Tail(text), delimiter, <<>>)
       ELSE SplitOn(Tail(text), delimiter, Append(token, Head(text)))

\* value_parser<T>::parse(ctx, text, value): the result is the new content
\* of `value`, also when the conversion throws (ok = FALSE).
\* `value` is assigned the parsed scalar r, or keeps its content.
assign_parsed(r, value) ==
  IF r.ok THEN [ok |-> TRUE, v |-> r.v] ELSE [ok |-> FALSE, v |-> value]

\* value.emplace_back(the parsed element r), or `value` keeps its content.
emplace_parsed(r, value) ==
  IF r.ok THEN [ok |-> TRUE, v |-> Append(value, r.v)] ELSE [ok |-> FALSE, v |-> value]

RECURSIVE value_parser(_, _, _, _)
RECURSIVE ParseSegments(_, _, _, _)
ParseSegments(elem, delimiter, tokens, value) ==
  IF tokens = <<>> THEN [ok |-> TRUE, v |-> value]
  ELSE LET r == value_parser(elem, delimiter, Head(tokens), DefaultConstructed(elem))
       IN IF ~r.ok THEN [ok |-> FALSE, v |-> value]
          ELSE ParseSegments(elem, delimiter, Tail(tokens), Append(value, r.v))

\* value_parser<std::vector<T>> without the case of the empty text: the
\* empty text is handed to the parser of the element.
value_parser_empty_to_element(type, delimiter, text, value) ==
  IF ~is_container(type)
  THEN assign_parsed(parse_value(type, text), value)
  ELSE IF is_container(Tail(type))
       THEN emplace_parsed(value_parser(Tail(type), delimiter, text, <<>>), value)
       ELSE ParseSegments(Tail(type), delimiter, SplitOn(text, delimiter, <<>>), value)

value_parser(type, delimiter, text, value) ==
  IF ~is_container(type)
  THEN assign_parsed(parse_value(type, text), value)
  ELSE IF text = <<>> THEN [ok |-> TRUE, v |-> Append(value, DefaultConstructed(Tail(type)))]
  ELSE IF is_container(Tail(type))
       THEN emplace_parsed(value_parser(Tail(type), delimiter, text, <<>>), value)
       ELSE ParseSegments(Tail(type), delimiter, SplitOn(text, delimiter, <<>>), value)

(***************************************************************************)
(* detail::value_base / basic_value<T>: the value prototype of an option.  *)
(***************************************************************************)
\* basic_value<T>() : the constructor runs set_default_and_implicit().
value(type) ==
  [type |-> type,
   default_ |-> Head(type) = "bool",
   default_value_ |-> IF Head(type) = "bool" THEN <<"f", "a", "l", "s", "e">> ELSE <<>>,
   implicit_ |-> Head(type) = "bool",
   implicit_value_ |-> IF Head(type) = "bool" THEN <<"t", "r", "u", "e">> ELSE <<>>,
   env_ |-> FALSE,
   env_var_ |-> "",
   delimiter |-> ","]

default_value(v, text) == [v EXCEPT !.default_ = TRUE, !.default_value_ = text]

env(v, var) == [v EXCEPT !.env_ = TRUE, !.env_var_ = var]

implicit_value(v, text) == [v EXCEPT !.implicit_ = TRUE, !.implicit_value_ = text]

no_implicit_value(v) == [v EXCEPT !.implicit_ = FALSE, !.implicit_value_ = <<>>]

delimiter(v, del) == [v EXCEPT !.delimiter = del]

\* value_base::get_no_value(): the option takes no value from the next
\* token.  checked_parse_arg calls it; the files of the repository hold no
\* definition of it.  It is taken to be true of a boolean option that has an
\* implicit value: the flag `--bool` of the tests leaves the next token alone,
\* and a boolean declared with no_implicit_value() takes it.
get_no_value(v) == Head(v.type) = "bool" /\ v.implicit_

(***************************************************************************)
(* option_details and the registry (class options).  A registry is a       *)
(* record of the fields of `options`; `iteration_` is the order in which   *)
(* the unordered_map options_ is iterated, and `id` names the value_base   *)
(* object an option_details holds (a shared_ptr).                          *)
(***************************************************************************)
option_details(id, short_name, long_name, val) ==
  [id |-> id,
   short_ |-> short_name,
   long_ |-> long_name,
   hash_ |-> long_name \o short_name,
   value_ |-> val]

EmptyRegistry ==
  [options_ |-> <<>>,
   iteration_ |-> <<>>,
   positional_ |-> <<>>,
   allow_unrecognised_ |-> FALSE,
   stop_on_positional_ |-> FALSE]

\* add_one_option without the check of the emplace: the name is bound anew.
add_one_option_overwrite(R, name, details) ==
  [ok |-> TRUE,
   reg |-> [R EXCEPT !.options_ = [n \in DOMAIN R.options_ \cup {name} |->
                                     IF n = name THEN details ELSE R.options_[n]],
                     !.iteration_ = IF name \in DOMAIN R.options_ THEN @
                                    ELSE Append(@, name)]]

\* options::add_one_option: emplace, or option_exists_error.
add_one_option(R, name, details) ==
  IF name \in DOMAIN R.options_
  THEN [ok |-> FALSE, reg |-> R]
  ELSE [ok |-> TRUE,
        reg |-> [R EXCEPT !.options_ = [n \in DOMAIN R.options_ \cup {name} |->
                                          IF n = name THEN details ELSE R.options_[n]],
                          !.iteration_ = Append(@, name)]]

\* options::add_option(group, s, l, desc, value, arg_help).
add_option(R, id, s, l, val) ==
  LET details == option_details(id, s, l, val)
      r1 == IF s # <<>> THEN add_one_option(R, s, details) ELSE [ok |-> TRUE, reg |-> R]
      r2 == IF l # <<>> THEN add_one_option(r1.reg, l, details) ELSE r1
  IN IF ~r1.ok THEN r1 ELSE r2

\* A sequence of declarations [s, l, value] registered in order.
RECURSIVE AddAll(_, _, _)
AddAll(R, decls, id) ==
  IF decls = <<>> THEN R
  ELSE AddAll(add_option(R, id, Head(decls).s, Head(decls).l, Head(decls).value).reg,
              Tail(decls), id + 1)

(***************************************************************************)
(* parse_option_specifier and option_adder::operator(): the text of an     *)
(* option specifier is split into the short and the long name.             *)
(***************************************************************************)
RejectedSpecifier == [ok |-> FALSE, s |-> <<>>, l |-> <<>>]

\* while (*p && *p == ' ') ++p;
RECURSIVE skip_spaces(_, _)
skip_spaces(text, p) ==
  IF p <= Len(text) /\ text[p] = " " THEN skip_spaces(text, p + 1) ELSE p

\* The long name read from position p: the first character is taken when it
\* is alphanumeric, then the loop takes every character it accepts and
\* returns false at the first it does not.
specifier_long_name(text, p) ==
  LET first == IF isalnum(text[p]) THEN p + 1 ELSE p
      l == SubSeq(text, p, Len(text))
  IN IF \A i \in first..Len(text) : text[i] = "-" \/ text[i] = "_" \/ isalnum(text[i])
     THEN [ok |-> Len(l) > 1, l |-> l]
     ELSE [ok |-> FALSE, l |-> <<>>]

\* The end of parse_option_specifier, from the position after the spaces.
specifier_after_spaces(text, s, p) ==
  IF p > Len(text) THEN [ok |-> TRUE, s |-> s, l |-> <<>>]
  ELSE LET long == specifier_long_name(text, p)
       IN IF long.ok THEN [ok |-> TRUE, s |-> s, l |-> long.l]
          ELSE RejectedSpecifier

\* parse_option_specifier without the test of the short name at the comma.
parse_option_specifier_comma_first(text) ==
  IF text = <<>> THEN RejectedSpecifier
  ELSE LET short == Len(text) = 1 \/ text[2] = ","
           s == IF short THEN <<text[1]>> ELSE <<>>
           p == IF short THEN 2 ELSE 1
           comma == p <= Len(text) /\ text[p] = ","
       IN IF short /\ ~(text[1] = "?" \/ isalnum(text[1])) THEN RejectedSpecifier
          ELSE specifier_after_spaces(text, s,
                                      skip_spaces(text, IF comma THEN p + 1 ELSE p))

parse_option_specifier(text) ==
  IF text = <<>> THEN RejectedSpecifier
  ELSE LET short == Len(text) = 1 \/ text[2] = ","
           s == IF short THEN <<text[1]>> ELSE <<>>
           p == IF short THEN 2 ELSE 1
           comma == p <= Len(text) /\ text[p] = ","
       IN IF short /\ ~(text[1] = "?" \/ isalnum(text[1])) THEN RejectedSpecifier
          ELSE IF comma /\ s = <<>> THEN RejectedSpecifier
          ELSE specifier_after_spaces(text, s,
                                      skip_spaces(text, IF comma THEN p + 1 ELSE p))

\* What option_adder::operator() did with its specifier: the error it
\* raised ("" when none) and the registry it left.
option_adder_result(R, text, spec, added) ==
  IF ~spec.ok
  THEN [text |-> text, err |-> "invalid_option_format_error", s |-> <<>>, l |-> <<>>,
        reg |-> R]
  ELSE [text |-> text, err |-> IF added.ok THEN "" ELSE "option_exists_error",
        s |-> spec.s, l |-> spec.l, reg |-> added.reg]

\* option_adder::operator()(opts, desc, value, arg_help) on the registry R.
option_adder(R, id, text, val) ==
  LET spec == parse_option_specifier(text)
  IN option_adder_result(R, text, spec,
                         IF spec.ok THEN add_option(R, id, spec.s, spec.l, val)
                         ELSE [ok |-> FALSE, reg |-> R])

parse_positional(R, names) == [R EXCEPT !.positional_ = names]

allow_unrecognised_options(R) == [R EXCEPT !.allow_unrecognised_ = TRUE]

stop_on_positional(R) == [R EXCEPT !.stop_on_positional_ = TRUE]

\* Every option_details of the registry.
Details(R) == {R.options_[n] : n \in DOMAIN R.options_}

\* The value_base object with the given identity.
ValueById(R, id) == (CHOOSE d \in Details(R) : d.id = id).value_

\* The storage of every value_base object right after construction.
FreshStore(R) ==
  [id \in {d.id : d \in Details(R)} |-> DefaultConstructed(ValueById(R, id).type)]

(***************************************************************************)
(* option_value: the per-parse slot of an option.  value_ = 0 is nullptr,  *)
(* otherwise the identity of the value_base object it shares with the      *)
(* option_details.                                                         *)
(***************************************************************************)
EmptyOptionValue == [long_name_ |-> <<>>, value_ |-> 0, count_ |-> 0, default_ |-> FALSE]

\* option_value::ensure_value
ensure_value(ov, details) ==
  IF ov.value_ = 0 THEN [ov EXCEPT !.value_ = details.id] ELSE ov

(***************************************************************************)
(* The state of one option_parser::parse run, M:                           *)
(*   argv, current, next (the positional cursor), unmatched, parsed_,      *)
(*   sequential_  - the locals and members of option_parser;               *)
(*   store        - the storage of the value_base objects, which the run   *)
(*                  reaches through option_details::value();               *)
(*   brk          - the token walk was left by `break`;                    *)
(*   err          - the exception thrown, "" when none.                    *)
(***************************************************************************)
NewRun(argv, st) ==
  [argv |-> argv, current |-> 1, next |-> 0, unmatched |-> <<>>,
   parsed_ |-> <<>>, sequential_ |-> <<>>, store |-> st, brk |-> FALSE, err |-> ""]

argc(M) == Len(M.argv)

\* argv[i], with the index of the source (argv[0] is the program name).
Arg(M, i) == M.argv[i + 1]

\* parsed_[hash] as an rvalue.
Slot(M, hash) ==
  IF hash \in DOMAIN M.parsed_ THEN M.parsed_[hash] ELSE EmptyOptionValue

\* parsed_[hash] = ov
SetSlot(M, hash, ov) ==
  [M EXCEPT !.parsed_ = [h \in DOMAIN M.parsed_ \cup {hash} |->
                           IF h = hash THEN ov ELSE M.parsed_[h]]]

Throw(M, what) == [M EXCEPT !.err = what]

\* A variant of option_value::parse whose count_ is taken from the number of
\* elements the container storage holds instead of being incremented.
option_value_parse_counts_elements(R, M, details, text) ==
  LET ov == ensure_value(Slot(M, details.hash_), details)
      val == ValueById(R, ov.value_)
      r == value_parser(val.type, val.delimiter, text, M.store[ov.value_])
      counted == [ov EXCEPT !.count_ = IF is_container(val.type) THEN Len(r.v) ELSE @ + 1]
      M1 == [M EXCEPT !.store[ov.value_] = r.v]
  IN IF r.ok
     THEN SetSlot(M1, details.hash_, [counted EXCEPT !.long_name_ = details.long_])
     ELSE Throw(SetSlot(M1, details.hash_, counted), "argument_incorrect_type")

\* The effect of option_value::parse once value_parser has run with outcome
\* r on the storage of ov: the count, the storage and, unless the conversion
\* threw, the long name.
option_value_parsed(M, details, ov, r) ==
  IF r.ok
  THEN SetSlot([M EXCEPT !.store[ov.value_] = r.v], details.hash_,
               [ov EXCEPT !.count_ = @ + 1, !.long_name_ = details.long_])
  ELSE Throw(SetSlot([M EXCEPT !.store[ov.value_] = r.v], details.hash_,
                     [ov EXCEPT !.count_ = @ + 1]),
             "argument_incorrect_type")

\* option_value::parse(details, text) on parsed_[details->hash()].
option_value_parse(R, M, details, text) ==
  LET ov == ensure_value(Slot(M, details.hash_), details)
      val == ValueById(R, ov.value_)
  IN option_value_parsed(M, details, ov,
                         value_parser(val.type, val.delimiter, text, M.store[ov.value_]))

\* The effect of option_value::parse_default once value_parser has run with
\* outcome r on the storage of ov.
option_value_defaulted(M, details, ov, r) ==
  IF r.ok
  THEN SetSlot([M EXCEPT !.store[ov.value_] = r.v], details.hash_,
               [ov EXCEPT !.default_ = TRUE, !.long_name_ = details.long_])
  ELSE Throw(SetSlot([M EXCEPT !.store[ov.value_] = r.v], details.hash_,
                     [ov EXCEPT !.default_ = TRUE, !.long_name_ = details.long_]),
             "argument_incorrect_type")

\* option_value::parse_default(details) on parsed_[details->hash()].
option_value_parse_default(R, M, details) ==
  LET ov == ensure_value(Slot(M, details.hash_), details)
      val == ValueById(R, ov.value_)
  IN option_value_defaulted(M, details, ov,
                            value_parser(val.type, val.delimiter, val.default_value_,
                                         M.store[ov.value_]))

\* parse_no_value with the storage of the value materialised.
option_value_parse_no_value_ensures(M, details) ==
  SetSlot(M, details.hash_,
          [ensure_value(Slot(M, details.hash_), details) EXCEPT !.long_name_ = details.long_])

\* option_value::parse_no_value(details) on parsed_[details->hash()].
option_value_parse_no_value(M, details) ==
  SetSlot(M, details.hash_, [Slot(M, details.hash_) EXCEPT !.long_name_ = details.long_])

\* emplace_back with the name the option is known by on the command line:
\* its short name when it has one.
emplace_sequential_short_key(M1, details, arg) ==
  IF M1.err # "" THEN M1
  ELSE [M1 EXCEPT !.sequential_ =
          Append(@, <<IF details.short_ # <<>> THEN details.short_ ELSE details.long_, arg>>)]

\* sequential_.emplace_back(long name, arg), reached when parse did not throw.
emplace_sequential(M1, details, arg) ==
  IF M1.err # "" THEN M1
  ELSE [M1 EXCEPT !.sequential_ = Append(@, <<details.long_, arg>>)]

\* option_parser::parse_option
parse_option(R, M, details, arg) ==
  emplace_sequential(option_value_parse(R, M, details, arg), details, arg)

(***************************************************************************)
(* option_parser::parse_argument: the fixed grammar of one token.          *)
(* For the token "-" the short branch reads the byte after the string's    *)
(* terminator; pastEndZero says whether that byte is zero.                  *)
(***************************************************************************)
NoOption == [ok |-> FALSE, name |-> <<>>, val |-> <<>>, is_long |-> FALSE, has_value |-> FALSE]

RECURSIVE LongName(_, _)
LongName(p, name) ==
  IF p = <<>>
  THEN [ok |-> Len(name) > 1, name |-> name, val |-> <<>>,
        is_long |-> TRUE, has_value |-> FALSE]
  ELSE IF Head(p) = "="
  THEN [ok |-> Len(name) > 1, name |-> name, val |-> Tail(p),
        is_long |-> TRUE, has_value |-> TRUE]
  ELSE IF Head(p) = "-" \/ Head(p) = "_" \/ isalnum(Head(p))
  THEN LongName(Tail(p), Append(name, Head(p)))
  ELSE NoOption

parse_argument(text, pastEndZero) ==
  IF text = <<>> \/ Head(text) # "-" THEN NoOption
  ELSE LET p == Tail(text)
       IN IF p # <<>> /\ Head(p) = "-"
          THEN LET q == Tail(p)
               IN IF q # <<>> /\ isalnum(Head(q)) /\ Len(q) > 1
                  THEN LongName(Tail(q), <<Head(q)>>)
                  ELSE NoOption
          ELSE IF p = <<>>
               THEN IF pastEndZero THEN NoOption
                    ELSE [NoOption EXCEPT !.ok = TRUE]
          ELSE IF Len(p) = 1
               THEN IF Head(p) = "?" \/ isalnum(Head(p))
                    THEN [NoOption EXCEPT !.ok = TRUE, !.name = p]
                    ELSE NoOption
          ELSE IF \A i \in DOMAIN p : isalnum(p[i])
               THEN [NoOption EXCEPT !.ok = TRUE, !.name = p]
               ELSE NoOption

\* The grammar match `result` names an option of the registry.
names_option(R, result) ==
  IF ~result.ok THEN FALSE
  ELSE IF result.is_long THEN result.name \in DOMAIN R.options_
  ELSE SubSeq(result.name, 1, IF Len(result.name) > 0 THEN 1 ELSE 0) \in DOMAIN R.options_

\* A variant that takes every token matching the option grammar for an
\* option name, declared or not.
is_dash_dash_or_option_name_any_shape(R, arg, pastEndZero) ==
  IF arg = <<"-", "-">> THEN TRUE
  ELSE parse_argument(arg, pastEndZero).ok

\* option_parser::is_dash_dash_or_option_name
is_dash_dash_or_option_name(R, arg, pastEndZero) ==
  IF arg = <<"-", "-">> THEN TRUE
  ELSE names_option(R, parse_argument(arg, pastEndZero))

\* A variant of the branch in which a boolean flag takes the next token
\* like any other option.
takes_next_token_flag_too(R, M, details, pastEndZero) ==
  /\ M.current + 1 # argc(M)
  /\ ~ ( /\ Arg(M, M.current + 1) # <<>>
         /\ Head(Arg(M, M.current + 1)) = "-"
         /\ is_dash_dash_or_option_name(R, Arg(M, M.current + 1), pastEndZero) )

\* The branch of checked_parse_arg that takes argv[current + 1] as the value:
\* there is a next token, the option takes one, and the token does not begin
\* with '-' while being `--` or the name of an option.
takes_next_token(R, M, details, pastEndZero) ==
  /\ M.current + 1 # argc(M)
  /\ ~get_no_value(details.value_)
  /\ ~ ( /\ Arg(M, M.current + 1) # <<>>
         /\ Head(Arg(M, M.current + 1)) = "-"
         /\ is_dash_dash_or_option_name(R, Arg(M, M.current + 1), pastEndZero) )

\* The `++current` of checked_parse_arg after the next token was parsed.
skip_taken_token(M1, took) ==
  IF M1.err # "" \/ ~took THEN M1 ELSE [M1 EXCEPT !.current = @ + 1]

\* checked_parse_arg once the branch is known: the next token, the implicit
\* value, or missing_argument_error.
checked_parse_arg_branch(R, M, details, took) ==
  IF ~took /\ ~details.value_.implicit_
  THEN Throw(M, "missing_argument_error")
  ELSE skip_taken_token(
         parse_option(R, M, details,
                      IF took THEN Arg(M, M.current + 1)
                      ELSE details.value_.implicit_value_),
         took)

\* option_parser::checked_parse_arg
checked_parse_arg(R, M, details, pastEndZero) ==
  checked_parse_arg_branch(R, M, details, takes_next_token(R, M, details, pastEndZero))

\* A variant in which a container moves the cursor on like any other option.
positional_parsed_always_advance(M1, container) ==
  [m |-> IF M1.err # "" THEN M1 ELSE [M1 EXCEPT !.next = @ + 1],
   consumed |-> TRUE]

\* consume_positional after parse_option has run: a container keeps the
\* cursor, another option moves it on.
positional_parsed(M1, container) ==
  [m |-> IF M1.err # "" \/ container THEN M1 ELSE [M1 EXCEPT !.next = @ + 1],
   consumed |-> TRUE]

\* consume_positional that passes over a binding that names no declared
\* option.
RECURSIVE consume_positional_skip_undeclared(_, _, _)
consume_positional_skip_undeclared(R, M, a) ==
  IF M.next >= Len(R.positional_) THEN [m |-> M, consumed |-> FALSE]
  ELSE LET name == R.positional_[M.next + 1]
       IN IF name \notin DOMAIN R.options_
          THEN consume_positional_skip_undeclared(R, [M EXCEPT !.next = @ + 1], a)
          ELSE LET details == R.options_[name]
                   M0 == SetSlot(M, details.hash_, Slot(M, details.hash_))
               IN IF is_container(details.value_.type)
                     \/ Slot(M, details.hash_).count_ = 0
                  THEN positional_parsed(parse_option(R, M0, details, a),
                                         is_container(details.value_.type))
                  ELSE consume_positional_skip_undeclared(R, [M0 EXCEPT !.next = @ + 1], a)

\* option_parser::consume_positional: [m |-> the run, consumed |-> its result]
RECURSIVE consume_positional(_, _, _)
consume_positional(R, M, a) ==
  IF M.next >= Len(R.positional_) THEN [m |-> M, consumed |-> FALSE]
  ELSE LET name == R.positional_[M.next + 1]
       IN IF name \notin DOMAIN R.options_
          THEN [m |-> Throw(M, "option_not_exists_error"), consumed |-> FALSE]
          ELSE LET details == R.options_[name]
                   M0 == SetSlot(M, details.hash_, Slot(M, details.hash_))
               IN IF is_container(details.value_.type)
                     \/ Slot(M, details.hash_).count_ = 0
                  THEN positional_parsed(parse_option(R, M0, details, a),
                                         is_container(details.value_.type))
                  ELSE consume_positional(R, [M0 EXCEPT !.next = @ + 1], a)

(***************************************************************************)
(* option_parser::parse: the token walk.                                   *)
(***************************************************************************)
\* After `--`: the first loop feeds the tokens to consume_positional until
\* one is not consumed, the second loop moves the rest to unmatched.
RECURSIVE AfterDashDash(_, _, _)
\* The first loop after consume_positional has returned c.
AfterConsumed(R, c) ==
  IF c.m.err # "" THEN c.m
  ELSE IF c.consumed
  THEN AfterDashDash(R, [c.m EXCEPT !.current = @ + 1], TRUE)
  ELSE AfterDashDash(R, c.m, FALSE)

AfterDashDash(R, M, absorbing) ==
  IF M.err # "" \/ M.current >= argc(M) THEN M
  ELSE IF absorbing
       THEN AfterConsumed(R, consume_positional(R, M, Arg(M, M.current)))
       ELSE AfterDashDash(R, [M EXCEPT !.unmatched = Append(@, Arg(M, M.current)),
                                       !.current = @ + 1], FALSE)

\* A variant of the cluster loop without the `break` after an option has
\* taken the rest of the cluster as its value.
RECURSIVE ShortSequence_no_break(_, _, _, _, _)
ShortSequence_no_break(R, M, seq, i, pastEndZero) ==
  IF M.err # "" \/ i = Len(seq) THEN M
  ELSE LET name == <<seq[i + 1]>>
       IN IF name \notin DOMAIN R.options_
          THEN IF R.allow_unrecognised_
               THEN ShortSequence_no_break(
                      R, [M EXCEPT !.unmatched = Append(@, <<"-">> \o name)],
                      seq, i + 1, pastEndZero)
               ELSE Throw(M, "option_not_exists_error")
          ELSE LET opt == R.options_[name]
               IN IF i + 1 = Len(seq)
                  THEN checked_parse_arg(R, M, opt, pastEndZero)
                  ELSE ShortSequence_no_break(
                         R,
                         parse_option(R, M, opt,
                                      IF opt.value_.implicit_
                                      THEN opt.value_.implicit_value_
                                      ELSE SubSeq(seq, i + 2, Len(seq))),
                         seq, i + 1, pastEndZero)

\* The loop over the characters of a short cluster, from character i.  An
\* option without an implicit value takes the rest of the cluster and the
\* loop is left by `break`: the scan goes on at the end of the cluster.
RECURSIVE ShortSequence(_, _, _, _, _)
ShortSequence(R, M, seq, i, pastEndZero) ==
  IF M.err # "" \/ i = Len(seq) THEN M
  ELSE LET name == <<seq[i + 1]>>
       IN IF name \notin DOMAIN R.options_
          THEN IF R.allow_unrecognised_
               THEN ShortSequence(R, [M EXCEPT !.unmatched = Append(@, <<"-">> \o name)],
                                  seq, i + 1, pastEndZero)
               ELSE Throw(M, "option_not_exists_error")
          ELSE LET opt == R.options_[name]
               IN IF i + 1 = Len(seq)
                  THEN checked_parse_arg(R, M, opt, pastEndZero)
                  ELSE ShortSequence(
                         R,
                         parse_option(R, M, opt,
                                      IF opt.value_.implicit_
                                      THEN opt.value_.implicit_value_
                                      ELSE SubSeq(seq, i + 2, Len(seq))),
                         seq,
                         IF opt.value_.implicit_ THEN i + 1 ELSE Len(seq),
                         pastEndZero)

\* A variant that treats `--name=` with nothing after the `=` like `--name`.
LongOption_empty_as_absent(R, M, result, pastEndZero) ==
  IF result.name \notin DOMAIN R.options_
  THEN IF R.allow_unrecognised_
       THEN [M EXCEPT !.unmatched = Append(@, Arg(M, M.current))]
       ELSE Throw(M, "option_not_exists_error")
  ELSE LET opt == R.options_[result.name]
       IN IF result.has_value /\ result.val # <<>>
          THEN parse_option(R, M, opt, result.val)
          ELSE checked_parse_arg(R, M, opt, pastEndZero)

\* A long option token whose grammar matched.
LongOption(R, M, result, pastEndZero) ==
  IF result.name \notin DOMAIN R.options_
  THEN IF R.allow_unrecognised_
       THEN [M EXCEPT !.unmatched = Append(@, Arg(M, M.current))]
       ELSE Throw(M, "option_not_exists_error")
  ELSE LET opt == R.options_[result.name]
       IN IF result.has_value
          THEN parse_option(R, M, opt, result.val)
          ELSE checked_parse_arg(R, M, opt, pastEndZero)

\* The end of an iteration that leaves the token index where it is.
Advance_stays(M) == M

\* The `++current` that ends an iteration, unless an exception left it.
Advance(M) == IF M.err # "" THEN M ELSE [M EXCEPT !.current = @ + 1]

\* A token that consume_positional did not consume goes to unmatched.
unmatched_unless_consumed(c, tok) ==
  IF c.consumed \/ c.m.err # "" THEN Advance(c.m)
  ELSE Advance([c.m EXCEPT !.unmatched = Append(@, tok)])

\* A variant that looks at stop_on_positional_ before the syntax of the token.
WalkToken_stop_first(R, M, tok, result, pastEndZero) ==
  IF ~result.ok
  THEN IF R.stop_on_positional_ THEN [M EXCEPT !.brk = TRUE]
       ELSE IF tok # <<>> /\ Head(tok) = "-" /\ Len(tok) > 1 /\ ~R.allow_unrecognised_
       THEN Throw(M, "option_syntax_error")
       ELSE unmatched_unless_consumed(consume_positional(R, M, tok), tok)
  ELSE IF ~result.is_long
       THEN Advance(ShortSequence(R, M, result.name, 0, pastEndZero))
       ELSE Advance(LongOption(R, M, result, pastEndZero))

\* An iteration on a token other than `--`; result is parse_argument(tok).
WalkToken(R, M, tok, result, pastEndZero) ==
  IF ~result.ok
  THEN IF tok # <<>> /\ Head(tok) = "-" /\ Len(tok) > 1 /\ ~R.allow_unrecognised_
       THEN Throw(M, "option_syntax_error")
       ELSE IF R.stop_on_positional_ THEN [M EXCEPT !.brk = TRUE]
       ELSE unmatched_unless_consumed(consume_positional(R, M, tok), tok)
  ELSE IF ~result.is_long
       THEN Advance(ShortSequence(R, M, result.name, 0, pastEndZero))
       ELSE Advance(LongOption(R, M, result, pastEndZero))

\* A variant that steps over `--` and goes on classifying the tokens.
WalkStep_dash_dash_skipped(R, M, pastEndZero) ==
  IF Arg(M, M.current) = <<"-", "-">>
  THEN IF R.stop_on_positional_
       THEN [M EXCEPT !.current = @ + 1, !.brk = TRUE]
       ELSE [M EXCEPT !.current = @ + 1]
  ELSE WalkToken(R, M, Arg(M, M.current),
                 parse_argument(Arg(M, M.current), pastEndZero), pastEndZero)

\* One iteration of `while (current < argc)`.
WalkStep(R, M, pastEndZero) ==
  IF Arg(M, M.current) = <<"-", "-">>
  THEN IF R.stop_on_positional_
       THEN [M EXCEPT !.current = @ + 1, !.brk = TRUE]
       ELSE [AfterDashDash(R, [M EXCEPT !.current = @ + 1], TRUE) EXCEPT !.brk = TRUE]
  ELSE WalkToken(R, M, Arg(M, M.current),
                 parse_argument(Arg(M, M.current), pastEndZero), pastEndZero)

WalkDone(M) == M.err # "" \/ M.brk \/ M.current >= argc(M)

RECURSIVE Walk(_, _, _)
Walk(R, M, pastEndZero) ==
  IF WalkDone(M) THEN M ELSE Walk(R, WalkStep(R, M, pastEndZero), pastEndZero)

(***************************************************************************)
(* option_parser::parse: the pass over options_ that applies defaults and  *)
(* environment variables, and the result.  `environment` maps the names    *)
(* of the variables that are set to their text: std::getenv.               *)
(***************************************************************************)
\* A variant of the default pass that applies the default once per registered
\* name: it does not test has_default() of the slot.
DefaultAndEnvOne_default_per_name(R, M, name, environment) ==
  LET detail == R.options_[name]
      val == detail.value_
      M0 == SetSlot(M, detail.hash_, Slot(M, detail.hash_))
      slot == Slot(M0, detail.hash_)
      M1 == IF val.default_
            THEN IF slot.count_ = 0
                 THEN option_value_parse_default(R, M0, detail)
                 ELSE M0
            ELSE option_value_parse_no_value(M0, detail)
  IN IF M1.err # "" THEN M1
     ELSE IF val.env_ /\ Slot(M1, detail.hash_).count_ = 0
             /\ val.env_var_ \in DOMAIN environment
          THEN option_value_parse(R, M1, detail, environment[val.env_var_])
          ELSE M1

\* A variant of the environment pass that binds the variable once per
\* registered name: it does not test count() of the slot.
DefaultAndEnvOne_env_per_name(R, M, name, environment) ==
  LET detail == R.options_[name]
      val == detail.value_
      M0 == SetSlot(M, detail.hash_, Slot(M, detail.hash_))
      slot == Slot(M0, detail.hash_)
      M1 == IF val.default_
            THEN IF slot.count_ = 0 /\ ~slot.default_
                 THEN option_value_parse_default(R, M0, detail)
                 ELSE M0
            ELSE option_value_parse_no_value(M0, detail)
  IN IF M1.err # "" THEN M1
     ELSE IF val.env_ /\ val.env_var_ \in DOMAIN environment
          THEN option_value_parse(R, M1, detail, environment[val.env_var_])
          ELSE M1

\* The default of one entry of options_; M0 holds parsed_[detail->hash()].
apply_default(R, M0, detail) ==
  IF detail.value_.default_
  THEN IF Slot(M0, detail.hash_).count_ = 0 /\ ~Slot(M0, detail.hash_).default_
       THEN option_value_parse_default(R, M0, detail)
       ELSE M0
  ELSE option_value_parse_no_value(M0, detail)

\* The environment variable of one entry of options_.
apply_env(R, M1, detail, environment) ==
  IF M1.err # "" THEN M1
  ELSE IF detail.value_.env_ /\ Slot(M1, detail.hash_).count_ = 0
          /\ detail.value_.env_var_ \in DOMAIN environment
       THEN option_value_parse(R, M1, detail, environment[detail.value_.env_var_])
       ELSE M1

DefaultAndEnvOne(R, M, name, environment) ==
  LET detail == R.options_[name]
  IN apply_env(R,
               apply_default(R, SetSlot(M, detail.hash_, Slot(M, detail.hash_)), detail),
               detail, environment)

RECURSIVE DefaultAndEnv(_, _, _, _)
DefaultAndEnv(R, M, names, environment) ==
  IF M.err # "" \/ names = <<>> THEN M
  ELSE DefaultAndEnv(R, DefaultAndEnvOne(R, M, Head(names), environment),
                     Tail(names), environment)

\* The alias map with the long names only.
Keys_long_only(R) ==
  LET names == {d.long_ : d \in Details(R)}
  IN [n \in names \ {<<>>} |->
        (CHOOSE d \in Details(R) : n \in {d.short_, d.long_}).hash_]

\* "Finalize aliases": the name -> hash index of the result.
Keys(R) ==
  LET names == {d.short_ : d \in Details(R)} \cup {d.long_ : d \in Details(R)}
  IN [n \in names \ {<<>>} |->
        (CHOOSE d \in Details(R) : n \in {d.short_, d.long_}).hash_]

\* What a parse call gives its caller: the parse_result, or the exception.
NoOutcome ==
  [argv |-> <<>>, err |-> "none", keys_ |-> <<>>, values_ |-> <<>>,
   sequential_ |-> <<>>, unmatched_ |-> <<>>, consumed_arguments_ |-> 0]

Outcome(R, M) ==
  IF M.err # ""
  THEN [NoOutcome EXCEPT !.argv = M.argv, !.err = M.err]
  ELSE [argv |-> M.argv, err |-> "", keys_ |-> Keys(R), values_ |-> M.parsed_,
        sequential_ |-> M.sequential_, unmatched_ |-> M.unmatched,
        consumed_arguments_ |-> M.current]

\* option_parser::parse after the token walk.
Finish(R, M, environment) ==
  IF M.err # "" THEN M ELSE DefaultAndEnv(R, M, R.iteration_, environment)

\* options::parse(argc, argv): a fresh option_parser, run to its end.
RunParse(R, st, argv, environment, pastEndZero) ==
  Finish(R, Walk(R, NewRun(argv, st), pastEndZero), environment)

(***************************************************************************)
(* parse_result and option_value accessors.                                *)
(***************************************************************************)
\* parse_result::count
count(res, name) ==
  IF name \notin DOMAIN res.keys_ THEN 0
  ELSE IF res.keys_[name] \notin DOMAIN res.values_ THEN 0
  ELSE res.values_[res.keys_[name]].count_

\* parse_result::has
has(res, name) == count(res, name) # 0

\* parse_result::operator[] succeeds
present(res, name) ==
  name \in DOMAIN res.keys_ /\ res.keys_[name] \in DOMAIN res.values_

\* option_value::has_value of result[name]
has_value(res, name) == res.values_[res.keys_[name]].value_ # 0

\* option_value::has_default of result[name]
has_default(res, name) == res.values_[res.keys_[name]].default_

\* option_value::as<T>() of result[name], read while the storage is st.
as(res, name, st) == st[res.values_[res.keys_[name]].value_]

(***************************************************************************)
(* The state: one registry (the fields of `options`), the process          *)
(* environment, the storage of the registry's value objects, and the       *)
(* outcome of the latest parse call.                                       *)
(***************************************************************************)
VARIABLES
  options_,             \* options::options_
  iteration_,           \* the iteration order of options_
  positional_,          \* options::positional_
  allow_unrecognised_,  \* options::allow_unrecognised_
  stop_on_positional_,  \* options::stop_on_positional_
  environment_,         \* the process environment: variable -> text
  store,                \* basic_value<T>::store_ of every value object
  last,                 \* what the latest parse call returned or threw
  nparses,              \* number of parse calls made
  same_argv,            \* the latest call repeated the argv of the one before
  past_end_zero,        \* the byte parse_argument reads after the terminator of "-"
  threads,              \* concurrent parse calls: thread -> its option_parser
  declared,             \* what the latest option_adder call was given and did
  converted             \* what the latest integer conversion was given and gave

registry == <<options_, iteration_, positional_, allow_unrecognised_, stop_on_positional_>>
vars == <<options_, iteration_, positional_, allow_unrecognised_, stop_on_positional_,
          environment_, store, last, nparses, same_argv, past_end_zero, threads,
          declared, converted>>

\* The records of the latest calls outside parse.
calls == <<declared, converted>>

Reg ==
  [options_ |-> options_, iteration_ |-> iteration_, positional_ |-> positional_,
   allow_unrecognised_ |-> allow_unrecognised_,
   stop_on_positional_ |-> stop_on_positional_]

(***************************************************************************)
(* Inputs: registries, environments and argument vectors.                  *)
(***************************************************************************)
Prog == <<"p">>

SeqsUpTo(S, n) == UNION {[1..k -> S] : k \in 0..n}

\* Every argv with at most n tokens of S after the program name.
Argvs(S, n) == {<<Prog>> \o s : s \in SeqsUpTo(S, n)}

\* Integer options with a default and an environment variable
\* (test "Value from ENV variable").
ScalarRegistry ==
  AddAll(EmptyRegistry,
         << [s |-> <<"z">>, l |-> <<"b", "a", "z">>,
             value |-> default_value(env(value(<<"int8">>), "CXXOPTS_BAZ"), <<"9", "9">>)],
            [s |-> <<>>, l |-> <<"f", "o", "o">>,
             value |-> env(value(<<"int8">>), "CXXOPTS_FOO")] >>, 1)

ScalarTokens ==
  { <<"-", "-", "b", "a", "z">>, <<"5">>, <<"-", "-", "b", "a", "z", "=", "7">> }

\* A container option with a default and an environment variable
\* (test "Default values").
VectorRegistry ==
  AddAll(EmptyRegistry,
         << [s |-> <<"v">>, l |-> <<"v", "e", "c", "t", "o", "r">>,
             value |-> default_value(env(value(<<"vec", "int8">>), "CXXOPTS_VEC"),
                                     <<"1", ",", "4">>)] >>, 1)

VectorTokens ==
  { <<"-", "-", "v", "e", "c", "t", "o", "r">>, <<"5">>,
    <<"-", "-", "v", "e", "c", "t", "o", "r", "=", "2", ",", "x">> }

ReparseRegistries == {ScalarRegistry, VectorRegistry}

\* Options with no default: a string, an integer with an environment
\* variable, and next to them an integer with a default (tests "Basic
\* options" and "Value from ENV variable").
LazyRegistry ==
  AddAll(EmptyRegistry,
         << [s |-> <<>>, l |-> <<"v", "a", "l", "u", "e">>, value |-> value(<<"string">>)],
            [s |-> <<"n">>, l |-> <<"n", "u", "m">>,
             value |-> env(value(<<"int8">>), "CXXOPTS_FOO")],
            [s |-> <<"d">>, l |-> <<"d", "e", "f">>,
             value |-> default_value(value(<<"int8">>), <<"9">>)] >>, 1)

LazyTokens ==
  { <<"-", "-", "v", "a", "l", "u", "e", "=", "a">>,
    <<"-", "-", "v", "a", "l", "u", "e", "=">>,
    <<"-", "-", "n", "u", "m", "=", "1">>,
    <<"-", "-", "d", "e", "f", "=", "2">> }

ReparseTokens(R) ==
  IF <<"v">> \in DOMAIN R.options_ THEN VectorTokens
  ELSE IF <<"n">> \in DOMAIN R.options_ THEN LazyTokens
  ELSE ScalarTokens

NoEnvironment == <<>>

SetEnvironment ==
  [n \in {"CXXOPTS_BAZ", "CXXOPTS_FOO", "CXXOPTS_VEC"} |->
     IF n = "CXXOPTS_BAZ" THEN <<"8">>
     ELSE IF n = "CXXOPTS_FOO" THEN <<"6">> ELSE <<"3">>]

Environments == {NoEnvironment, SetEnvironment}

\* No option_adder call and no conversion has been made yet.
NoDeclare == [n |-> 0, text |-> <<>>, err |-> "none", s |-> <<>>, l |-> <<>>]

NoConversion == [type |-> "none", text |-> <<>>, ok |-> FALSE, v |-> 0]

(***************************************************************************)
(* Spec: parse calls, one after the other, on one registry.                *)
(***************************************************************************)
InitRegistry(R) ==
  /\ options_ = R.options_
  /\ iteration_ = R.iteration_
  /\ positional_ = R.positional_
  /\ allow_unrecognised_ = R.allow_unrecognised_
  /\ stop_on_positional_ = R.stop_on_positional_
  /\ store = FreshStore(R)
  /\ last = NoOutcome
  /\ nparses = 0
  /\ same_argv = FALSE
  /\ declared = NoDeclare
  /\ converted = NoConversion

NoThreads == <<>>

Init ==
  /\ \E R \in ReparseRegistries : InitRegistry(R)
  /\ environment_ \in Environments
  /\ past_end_zero = TRUE
  /\ threads = NoThreads

\* The caller gets the outcome of the run M; the storage is what M left.
Returns(argv, M) ==
  /\ store' = M.store
  /\ last' = Outcome(Reg, M)
  /\ nparses' = nparses + 1
  /\ same_argv' = (nparses > 0 /\ argv = last.argv)
  /\ UNCHANGED <<registry, environment_, past_end_zero, threads, calls>>

\* options::parse(argc, argv)
ParseCall(argv) ==
  Returns(argv, RunParse(Reg, store, argv, environment_, past_end_zero))

Parse ==
  /\ nparses < MaxParses
  /\ \E argv \in Argvs(ReparseTokens(Reg), MaxArgs) : ParseCall(argv)

Next == Parse

Spec == Init /\ [][Next]_vars

(***************************************************************************)
(* SpecLazy: parse calls, one after the other, on a registry with options  *)
(* that have no default.                                                   *)
(***************************************************************************)
InitLazy ==
  /\ InitRegistry(LazyRegistry)
  /\ environment_ \in Environments
  /\ past_end_zero = TRUE
  /\ threads = NoThreads

SpecLazy == InitLazy /\ [][Next]_vars

(***************************************************************************)
(* SpecOne: one parse call on a fresh registry, over the token grammar.    *)
(***************************************************************************)
\* A flag, a string option, and a string option with an implicit value
\* (tests "Short options without space", "Option with implicit value").
ClusterRegistry ==
  AddAll(EmptyRegistry,
         << [s |-> <<"x">>, l |-> <<>>, value |-> value(<<"bool">>)],
            [s |-> <<"a">>, l |-> <<"a", "v">>, value |-> value(<<"string">>)],
            [s |-> <<"o">>, l |-> <<"o", "u", "t">>,
             value |-> implicit_value(value(<<"string">>), <<"i">>)] >>, 1)

GrammarRegistries ==
  { ClusterRegistry,
    allow_unrecognised_options(ClusterRegistry),
    parse_positional(ClusterRegistry, << <<"a", "v">> >>),
    stop_on_positional(ClusterRegistry) }

GrammarTokens ==
  { <<"-", "x", "o", "a">>, <<"-", "x", "x", "a", "v">>, <<"-", "o", "x">>,
    <<"-", "a">>, <<"v">>, <<"-", "-">>, <<"-">> }

InitOne ==
  /\ \E R \in GrammarRegistries : InitRegistry(R)
  /\ environment_ = NoEnvironment
  /\ past_end_zero \in BOOLEAN
  /\ threads = NoThreads

ParseOnce ==
  /\ nparses = 0
  /\ \E argv \in Argvs(GrammarTokens, MaxArgsOne) : ParseCall(argv)

NextOne == ParseOnce

SpecOne == InitOne /\ [][NextOne]_vars

(***************************************************************************)
(* SpecConc: two threads call options::parse on the same registry, each    *)
(* with its own argv.  Every thread has its own option_parser (the run M); *)
(* the storage of the value objects is reached by both.  A step is one     *)
(* iteration of the token walk, or the default/environment pass together   *)
(* with the return; `read` is what the caller reads through as<T>() when   *)
(* the call returns.                                                       *)
(***************************************************************************)
Threads == {1, 2}

MaxArgsConc == 1

ConcTokens == {<<"-", "-", "b", "a", "z", "=", "7">>, <<"-", "-", "b", "a", "z", "=", "5">>}

IdleThread == [pc |-> "idle", run |-> NewRun(<<>>, <<>>), result |-> NoOutcome, read |-> <<>>]

InitConc ==
  /\ InitRegistry(ScalarRegistry)
  /\ environment_ \in Environments
  /\ past_end_zero = TRUE
  /\ threads = [t \in Threads |-> IdleThread]

\* The run of thread t on the storage as it is now.
RunOf(t) == [threads[t].run EXCEPT !.store = store]

Detach(M) == [M EXCEPT !.store = <<>>]

Reads(res, st) ==
  IF res.err # "" THEN <<>>
  ELSE [n \in {m \in DOMAIN res.keys_ : has_value(res, m)} |-> as(res, n, st)]

\* options::parse is entered: a fresh option_parser.
Start(t) ==
  /\ threads[t].pc = "idle"
  /\ \E argv \in Argvs(ConcTokens, MaxArgsConc) :
       threads' = [threads EXCEPT ![t].pc = "walk", ![t].run = NewRun(argv, <<>>)]
  /\ UNCHANGED <<registry, environment_, store, last, nparses, same_argv, past_end_zero, calls>>

\* Thread t has moved its run to M.
Stepped(t, M) ==
  /\ store' = M.store
  /\ threads' = [threads EXCEPT ![t].run = Detach(M)]

\* One iteration of the token walk of thread t.
Step(t) ==
  /\ threads[t].pc = "walk"
  /\ ~WalkDone(threads[t].run)
  /\ Stepped(t, WalkStep(Reg, RunOf(t), past_end_zero))
  /\ UNCHANGED <<registry, environment_, last, nparses, same_argv, past_end_zero, calls>>

\* Thread t has ended its run as M and its caller reads the result.
Ended(t, M) ==
  /\ store' = M.store
  /\ threads' = [threads EXCEPT ![t].pc = "done", ![t].run = Detach(M),
                                ![t].result = Outcome(Reg, M),
                                ![t].read = Reads(Outcome(Reg, M), M.store)]

\* The default/environment pass of thread t, and its return or throw.
Return(t) ==
  /\ threads[t].pc = "walk"
  /\ WalkDone(threads[t].run)
  /\ Ended(t, Finish(Reg, RunOf(t), environment_))
  /\ UNCHANGED <<registry, environment_, last, nparses, same_argv, past_end_zero, calls>>

NextConc == \E t \in Threads : Start(t) \/ Step(t) \/ Return(t)

SpecConc == InitConc /\ [][NextConc]_vars

(***************************************************************************)
(* SpecWalk: one parse call on a fresh registry, one iteration of the      *)
(* token walk at a time.  The call is the thread Walker of `threads`.      *)
(***************************************************************************)
Walker == 1

MaxArgsWalk == 2

\* A flag, a string option, a string option with an implicit value and a
\* boolean without one (tests "Positional after flag", "Option with
\* implicit value", "Boolean without implicit value").
WalkRegistry ==
  AddAll(EmptyRegistry,
         << [s |-> <<"x">>, l |-> <<>>, value |-> value(<<"bool">>)],
            [s |-> <<"a">>, l |-> <<"a", "v">>, value |-> value(<<"string">>)],
            [s |-> <<"o">>, l |-> <<"o", "u", "t">>,
             value |-> implicit_value(value(<<"string">>), <<"i">>)],
            [s |-> <<>>, l |-> <<"n", "b">>,
             value |-> no_implicit_value(value(<<"bool">>))] >>, 1)

\* No positional binding, one bound to a declared option, one bound to a
\* name that is not declared (test "Positional not valid").
WalkPositionals == { <<>>, << <<"a", "v">> >>, << <<"z", "z">> >> }

\* Strict and tolerant, each with every positional binding or with
\* stop_on_positional(), a mode in which consume_positional is never called.
WalkRegistries ==
  { [parse_positional(WalkRegistry, names) EXCEPT !.allow_unrecognised_ = allow] :
      names \in WalkPositionals, allow \in BOOLEAN }
  \cup { [stop_on_positional(WalkRegistry) EXCEPT !.allow_unrecognised_ = allow] :
           allow \in BOOLEAN }

WalkTokens ==
  { <<"0">>, <<>>, <<"-", "-">>, <<"-">>,
    <<"-", "-", "a", "v">>, <<"-", "-", "o", "u", "t">>, <<"-", "-", "n", "b">>,
    <<"-", "x">>, <<"-", "x", "a">>, <<"-", "o", "q">>, <<"-", "-", "z", "z">>, <<"-", "x", "?">>,
    <<"-", "-", "a">>, <<"-", "-", "a", "=", "0">>,
    <<"-", "-", "a", "v", "=">>, <<"-", "-", "o", "u", "t", "=", "-", "-">>,
    <<"-", "-", "a", "v", "=", "=", "0">> }

\* argc == 0 (test "Empty arguments").
NoArgv == <<>>

MaxArgsPos == 4

\* Two strings and a list of strings to bind positionally
\* (tests "Positional varargs", "Some positional explicit").
PosRegistry ==
  AddAll(EmptyRegistry,
         << [s |-> <<"a">>, l |-> <<"a", "a">>, value |-> value(<<"string">>)],
            [s |-> <<"b">>, l |-> <<"b", "b">>, value |-> value(<<"string">>)],
            [s |-> <<"c">>, l |-> <<"c", "c">>, value |-> value(<<"vec", "string">>)] >>, 1)

PosRegistries ==
  { parse_positional(PosRegistry, << <<"a", "a">>, <<"b", "b">>, <<"c", "c">> >>),
    parse_positional(PosRegistry, << <<"c", "c">>, <<"a", "a">> >>),
    parse_positional(PosRegistry, << <<"a", "a">>, <<"b", "b">> >>) }

PosTokens ==
  { <<"1">>, <<"2">>, <<"3">>, <<"4">>, <<"-", "-", "b", "b", "=", "9">> }

\* Two lists of integers, one of them the positional binding (test
\* "Integer vector with empty text").
MaxArgsVec == 3

Ints == <<"i", "n", "t", "s">>

Values == <<"v", "a", "l", "u", "e", "s">>

VecRegistry ==
  parse_positional(
    AddAll(EmptyRegistry,
           << [s |-> <<>>, l |-> Ints, value |-> value(<<"vec", "int8">>)],
              [s |-> <<>>, l |-> Values, value |-> value(<<"vec", "int8">>)] >>, 1),
    <<Values>>)

VecTokens ==
  { <<"-", "-">> \o Ints, <<"-", "-">> \o Ints \o <<"=">>, <<>>, <<"1">>,
    <<"1", ",", ",", "4">>, <<"-", "-">> }

\* A list of strings split on `;` and a list of lists of integers (tests
\* "Custom delimiter", "Vector of vector").
MaxArgsList == 3

ListRegistry ==
  AddAll(EmptyRegistry,
         << [s |-> <<"t">>, l |-> <<"t", "e", "s", "t">>,
             value |-> delimiter(value(<<"vec", "string">>), ";")],
            [s |-> <<"m">>, l |-> <<"m", "a", "t">>,
             value |-> value(<<"vec", "vec", "int8">>)] >>, 1)

ListTokens ==
  { <<"-", "-", "t", "e", "s", "t", "=", "a", ";", "b", ";", "c">>,
    <<"-", "-", "t", "e", "s", "t", "=", "x", ",", "y", ",", "z">>,
    <<"-", "-", "t", "e", "s", "t", "=", "a", ";">>,
    <<"-", "-", "m", "a", "t", "=", "1">>,
    <<"-", "-", "m", "a", "t", "=", "1", ",", "2">> }

MaxArgsLog == 2

LogRegistry ==
  AddAll(EmptyRegistry,
         << [s |-> <<"x">>, l |-> <<>>, value |-> value(<<"bool">>)],
            [s |-> <<"a">>, l |-> <<"a", "v">>, value |-> value(<<"string">>)],
            [s |-> <<"o">>, l |-> <<"o", "u", "t">>,
             value |-> implicit_value(value(<<"string">>), <<"i">>)],
            [s |-> <<"n">>, l |-> <<"n", "u", "m">>,
             value |-> env(value(<<"int8">>), "CXXOPTS_FOO")],
            [s |-> <<"d">>, l |-> <<"d", "e", "f">>,
             value |-> default_value(value(<<"int8">>), <<"9">>)] >>, 1)

LogTokens ==
  { <<"0">>, <<"-", "-">>, <<"-", "x", "a">>, <<"-", "o", "x">>, <<"-", "a", "x">>,
    <<"-", "-", "a", "v", "=", "1">>, <<"-", "-", "o", "u", "t">>,
    <<"-", "-", "n", "u", "m", "=", "2">>, <<"-", "d">>, <<"-", "q", "x">> }

MaxArgsPair == 3

\* Options without a common name: `abc`, `ab` with the short name `c`, and
\* `xy` with the short name `x`.
PairRegistry ==
  AddAll(EmptyRegistry,
         << [s |-> <<>>, l |-> <<"a", "b", "c">>, value |-> value(<<"string">>)],
            [s |-> <<"c">>, l |-> <<"a", "b">>, value |-> value(<<"string">>)],
            [s |-> <<"x">>, l |-> <<"x", "y">>,
             value |-> default_value(value(<<"string">>), <<"d">>)] >>, 1)

PairTokens ==
  { <<"-", "-", "a", "b", "c", "=", "1">>, <<"-", "-", "a", "b", "=", "2">>,
    <<"-", "c">>, <<"-", "-", "x", "y", "=", "3">>, <<"0">> }

MaxArgsStop == 3

\* Plain tokens, the terminator, options that take or leave the next token,
\* an undeclared option and a malformed token (test "Stop on positional").
StopTokens ==
  { <<"0">>, <<"-">>, <<"-", "-">>, <<"-", "x">>, <<"-", "-", "a", "v">>,
    <<"-", "-", "z", "z">>, <<"-", "x", "?">> }

\* The argument vectors tried on the registry R.
WalkArgvs(R) ==
  IF <<"a", "b", "c">> \in DOMAIN R.options_ THEN Argvs(PairTokens, MaxArgsPair)
  ELSE IF <<"c">> \in DOMAIN R.options_ THEN Argvs(PosTokens, MaxArgsPos)
  ELSE IF Ints \in DOMAIN R.options_ THEN Argvs(VecTokens, MaxArgsVec)
  ELSE IF <<"m">> \in DOMAIN R.options_ THEN Argvs(ListTokens, MaxArgsList)
  ELSE IF <<"d">> \in DOMAIN R.options_ /\ R.stop_on_positional_
  THEN Argvs(StopTokens, MaxArgsStop)
  ELSE IF <<"d">> \in DOMAIN R.options_ THEN Argvs(LogTokens, MaxArgsLog)
  ELSE Argvs(WalkTokens, MaxArgsWalk) \cup {NoArgv}

InitWalk ==
  /\ \E R \in WalkRegistries : InitRegistry(R)
  /\ environment_ = NoEnvironment
  /\ past_end_zero \in BOOLEAN
  /\ threads = [t \in {Walker} |-> IdleThread]

\* options::parse is entered with argv.
Begin ==
  /\ threads[Walker].pc = "idle"
  /\ \E argv \in WalkArgvs(Reg) :
       threads' = [threads EXCEPT ![Walker].pc = "walk",
                                  ![Walker].run = NewRun(argv, <<>>)]
  /\ UNCHANGED <<registry, environment_, store, last, nparses, same_argv, past_end_zero, calls>>

\* One iteration of the token walk.
Token == Step(Walker)

\* The default/environment pass and the return or throw.
End == Return(Walker)

NextWalk == Begin \/ Token \/ End

SpecWalk == InitWalk /\ [][NextWalk]_vars

(***************************************************************************)
(* SpecPos: the same call, iteration by iteration, on registries with a    *)
(* list of positional bindings.                                            *)
(***************************************************************************)
InitPos ==
  /\ \E R \in PosRegistries : InitRegistry(R)
  /\ environment_ = NoEnvironment
  /\ past_end_zero \in BOOLEAN
  /\ threads = [t \in {Walker} |-> IdleThread]

SpecPos == InitPos /\ [][NextWalk]_vars

InitVec ==
  /\ InitRegistry(VecRegistry)
  /\ environment_ = NoEnvironment
  /\ past_end_zero \in BOOLEAN
  /\ threads = [t \in {Walker} |-> IdleThread]

SpecVec == InitVec /\ [][NextWalk]_vars

\* One caller is about to enter options::parse on a registry of Rs, in an
\* environment of Es.
InitOn(Rs, Es) ==
  /\ \E R \in Rs : InitRegistry(R)
  /\ environment_ \in Es
  /\ past_end_zero \in BOOLEAN
  /\ threads = [t \in {Walker} |-> IdleThread]

SpecList == InitOn({ListRegistry}, {NoEnvironment}) /\ [][NextWalk]_vars

\* Positional bindings in which a name that no option declares comes first,
\* or after a declared option (test "Positional not valid").
UndeclaredRegistries ==
  { [parse_positional(WalkRegistry, names) EXCEPT !.allow_unrecognised_ = allow] :
      names \in { << <<"z", "z">>, <<"a", "v">> >>,
                  << <<"a", "v">>, <<"z", "z">>, <<"o", "u", "t">> >> },
      allow \in BOOLEAN }

SpecUndeclared == InitOn(UndeclaredRegistries, {NoEnvironment}) /\ [][NextWalk]_vars

\* Options given by long name, by short name and in clusters, next to an
\* option with an environment variable and one with a default; `av` is the
\* positional binding (tests "Basic options", "Value from ENV variable").
LogRegistries ==
  { [parse_positional(LogRegistry, << <<"a", "v">> >>) EXCEPT !.allow_unrecognised_ = allow] :
      allow \in BOOLEAN }

SpecLog == InitOn(LogRegistries, Environments) /\ [][NextWalk]_vars

SpecPair == InitOn({PairRegistry}, {NoEnvironment}) /\ [][NextWalk]_vars

\* stop_on_positional(), strict and tolerant.
SpecStop ==
  InitOn({[stop_on_positional(LogRegistry) EXCEPT !.allow_unrecognised_ = allow] :
            allow \in BOOLEAN}, {NoEnvironment})
    /\ [][NextWalk]_vars

(***************************************************************************)
(* SpecDeclare: option_adder calls, one after the other, on a registry     *)
(* that starts empty.                                                      *)
(***************************************************************************)
MaxDeclares == 3

\* Specifiers that share short and long names, and one that is malformed.
DeclareTexts ==
  { <<"a">>, <<"b">>, <<"a", "a">>, <<"b", "b">>,
    <<"a", ",", "a", "a">>, <<"b", ",", "a", "a">>,
    <<"a", ",", "b", "b">>, <<"b", ",", "b", "b">>, <<>> }

InitDeclare ==
  /\ InitRegistry(EmptyRegistry)
  /\ environment_ = NoEnvironment
  /\ past_end_zero = TRUE
  /\ threads = NoThreads

\* The caller is past the option_adder call that did r: the registry is
\* what the call left, with the storage of the value objects it holds.
Declares(r) ==
  /\ options_' = r.reg.options_
  /\ iteration_' = r.reg.iteration_
  /\ positional_' = r.reg.positional_
  /\ allow_unrecognised_' = r.reg.allow_unrecognised_
  /\ stop_on_positional_' = r.reg.stop_on_positional_
  /\ store' = FreshStore(r.reg)
  /\ declared' = [n |-> declared.n + 1, text |-> r.text, err |-> r.err,
                  s |-> r.s, l |-> r.l]
  /\ UNCHANGED <<environment_, last, nparses, same_argv, past_end_zero, threads,
                 converted>>

\* options.add_options()(text, "") with a boolean value.
DeclareCall(text) ==
  Declares(option_adder(Reg, Len(iteration_) + 1, text, value(<<"bool">>)))

Declare ==
  /\ declared.n < MaxDeclares
  /\ \E text \in DeclareTexts : DeclareCall(text)

SpecDeclare == InitDeclare /\ [][Declare]_vars

(***************************************************************************)
(* SpecSpecifier: one option_adder call on an empty registry, with every   *)
(* specifier text up to a length.                                          *)
(***************************************************************************)
MaxSpecLen == 5

SpecifierTexts == SeqsUpTo({"a", "0", "?", ",", "-", "_", " "}, MaxSpecLen)

DeclareAny ==
  /\ declared.n = 0
  /\ \E text \in SpecifierTexts : DeclareCall(text)

SpecSpecifier == InitDeclare /\ [][DeclareAny]_vars

(***************************************************************************)
(* SpecConvert: one call of detail::integer_parser<T> on a text, in a      *)
(* program that has declared nothing.                                      *)
(***************************************************************************)
MaxBodyLen == 3
MaxHexDigits == 3
MaxWideDigits == 5

\* The texts converted: every text of a few characters, well formed or not,
\* with a sign or none; the hex literals around the limits of the narrow
\* types; the literals as long as the accumulator's maximum and one digit
\* longer.
ConvertTexts ==
  LET Signs == {<<>>, <<"+">>, <<"-">>}
      BodyChars == {"0", "1", "2", "7", "8", "9", "x", "f", "F", "-", "+"}
      HexDigitChars == {"0", "1", "7", "8", "f", "F"}
      WideDecimalChars == {"0", "2", "7", "8"}
      WideHexChars == {"0", "1", "f"}
  IN {sign \o body : sign \in Signs, body \in SeqsUpTo(BodyChars, MaxBodyLen)}
     \cup {sign \o <<"0", "x">> \o digits :
             sign \in Signs, digits \in SeqsUpTo(HexDigitChars, MaxHexDigits)}
     \cup SeqsUpTo(WideDecimalChars, MaxWideDigits)
     \cup {<<"0", "x">> \o digits : digits \in SeqsUpTo(WideHexChars, MaxWideDigits)}

\* The caller is past integer_parser<T>(text, value): r.ok is false when it
\* threw argument_incorrect_type.
Converts(T, text, r) ==
  /\ converted' = [type |-> T, text |-> text, ok |-> r.ok, v |-> r.v]
  /\ UNCHANGED <<registry, environment_, store, last, nparses, same_argv, past_end_zero,
                 threads, declared>>

Convert ==
  /\ converted.type = "none"
  /\ \E T \in IntTypes, text \in ConvertTexts : Converts(T, text, integer_parser(T, text))

SpecConvert == InitDeclare /\ [][Convert]_vars

(***************************************************************************)
(* Vocabulary of the properties.                                           *)
(***************************************************************************)
\* The raw texts arguments() lists for the option, in order.
RECURSIVE ValuesOf(_, _)
ValuesOf(sequential, key) ==
  IF sequential = <<>> THEN <<>>
  ELSE IF Head(sequential)[1] = key
       THEN <<Head(sequential)[2]>> \o ValuesOf(Tail(sequential), key)
       ELSE ValuesOf(Tail(sequential), key)

Explicit(res, d) == ValuesOf(res.sequential_, d.long_)

\* The texts converted one after the other into a fresh, empty T.
RECURSIVE ConvertAll(_, _, _)
ConvertAll(val, texts, acc) ==
  IF texts = <<>> THEN acc
  ELSE ConvertAll(val, Tail(texts),
                  value_parser(val.type, val.delimiter, Head(texts), acc).v)

Converted(val, texts) == ConvertAll(val, texts, DefaultConstructed(val.type))

ValidLiteral(val, text) ==
  value_parser(val.type, val.delimiter, text, DefaultConstructed(val.type)).ok

IsPrefix(a, b) == Len(a) <= Len(b) /\ SubSeq(b, 1, Len(a)) = a

\* The token names the option: `--long`, `--long=...` or a short token
\* that holds the short name.
Names(tok, d) ==
  \/ /\ d.long_ # <<>>
     /\ IsPrefix(<<"-", "-">> \o d.long_, tok)
     /\ (Len(tok) = Len(d.long_) + 2 \/ tok[Len(d.long_) + 3] = "=")
  \/ /\ d.short_ # <<>>
     /\ Len(tok) >= 2 /\ tok[1] = "-" /\ tok[2] # "-"
     /\ \E i \in 2..Len(tok) : <<tok[i]>> = d.short_

AbsentFromArgv(argv, d) == \A i \in 2..Len(argv) : ~Names(argv[i], d)

EnvSet(d) == d.value_.env_ /\ d.value_.env_var_ \in DOMAIN environment_

Returned(res) == res.err = ""

Threw(res) == res.err \notin {"", "none"}

(***************************************************************************)
(* C1: a Parse Result is immutable once returned: the typed value read     *)
(* from the result of an earlier parse is unchanged by a later parse on    *)
(* the same registry.                                                      *)
(***************************************************************************)
C1_ResultImmutable ==
  [][\A n \in DOMAIN last.keys_ :
       has_value(last, n) => as(last, n, store') = as(last, n, store)]_vars

(***************************************************************************)
(* C2: two successive parse calls with the same argv give the same         *)
(* outcome: identical arguments(), unmatched(), consumed() and count(name) *)
(* for every declared name.                                                *)
(***************************************************************************)
SameOutcome(r1, r2) ==
  /\ r1.err = r2.err
  /\ r1.sequential_ = r2.sequential_
  /\ r1.unmatched_ = r2.unmatched_
  /\ r1.consumed_arguments_ = r2.consumed_arguments_
  /\ \A n \in DOMAIN options_ : count(r1, n) = count(r2, n)

C2_IdempotentReparse == [][same_argv' => SameOutcome(last, last')]_vars

C2_Witness ==
  /\ same_argv /\ Returned(last)
  /\ last.sequential_ # <<>>
  /\ \E n \in DOMAIN options_ : count(last, n) = 1 /\ Len(as(last, n, store)) > 1

(***************************************************************************)
(* C3: round trip on every parse call: parsing [prog, --name, s] for a     *)
(* valid literal s and reading as<T>() gives the value of converting s     *)
(* alone into a fresh T, on the first and on every later parse.            *)
(***************************************************************************)
C3_RoundTrip ==
  \A d \in Details(Reg) :
    ( /\ Returned(last) /\ Len(last.argv) = 3
      /\ last.argv[2] = <<"-", "-">> \o d.long_
      /\ ValidLiteral(d.value_, last.argv[3])
      /\ last.argv[3] # <<"-", "-">>
      /\ ~parse_argument(last.argv[3], past_end_zero).ok )
    => as(last, d.long_, store) = Converted(d.value_, <<last.argv[3]>>)

(***************************************************************************)
(* C4: two parse calls running concurrently on the same registry, each     *)
(* with its own argv, each return what the call returns when run alone:    *)
(* the same counts, arguments, unmatched tokens and typed values.          *)
(***************************************************************************)
Alone(argv) == RunParse(Reg, FreshStore(Reg), argv, environment_, past_end_zero)

C4_ConcurrentAsAlone ==
  \A t \in DOMAIN threads :
    threads[t].pc = "done" =>
      LET M == Alone(threads[t].run.argv)
          alone == Outcome(Reg, M)
      IN /\ SameOutcome(threads[t].result, alone)
         /\ threads[t].read = Reads(alone, M.store)

(***************************************************************************)
(* C5: atomic failure: a parse call that raises an error leaves every      *)
(* option's value storage exactly as it was before the call.               *)
(***************************************************************************)
C5_AtomicFailure ==
  [][(nparses' = nparses + 1 /\ Threw(last')) => store' = store]_vars

(***************************************************************************)
(* C6: explicit beats environment and default: for an option with a        *)
(* default and an env binding that is given on argv, the value read is the *)
(* conversion of the explicit texts only and count() is their number.      *)
(***************************************************************************)
C6_ExplicitWins ==
  Returned(last) =>
    \A d \in Details(Reg) :
      (d.value_.default_ /\ d.value_.env_ /\ Explicit(last, d) # <<>>)
      => /\ count(last, d.long_) = Len(Explicit(last, d))
         /\ as(last, d.long_, store) = Converted(d.value_, Explicit(last, d))

(***************************************************************************)
(* C7: environment beats default: for an option with a default and an env  *)
(* binding that is absent from argv while the variable is set, the value   *)
(* read is the conversion of the environment text alone.                   *)
(***************************************************************************)
C7_EnvBeatsDefault ==
  Returned(last) =>
    \A d \in Details(Reg) :
      (d.value_.default_ /\ EnvSet(d) /\ AbsentFromArgv(last.argv, d))
      => as(last, d.long_, store)
           = Converted(d.value_, <<environment_[d.value_.env_var_]>>)

(***************************************************************************)
(* C8: default only: on the first parse of a fresh registry an option with *)
(* a default, absent from argv and without a set env variable, has         *)
(* count() = 0, has() false, has_default() true, no entry in arguments()   *)
(* and a value equal to the default text converted once into an empty      *)
(* value, also when it is registered under a short and a long name.        *)
(***************************************************************************)
C8_DefaultOnly ==
  (nparses = 1 /\ Returned(last)) =>
    \A n \in DOMAIN options_ :
      LET d == options_[n]
      IN (d.value_.default_ /\ ~EnvSet(d) /\ AbsentFromArgv(last.argv, d))
         => /\ count(last, n) = 0
            /\ ~has(last, n)
            /\ has_default(last, n)
            /\ Explicit(last, d) = <<>>
            /\ as(last, n, store) = Converted(d.value_, <<d.value_.default_value_>>)

C8_Witness ==
  /\ nparses = 1 /\ Returned(last)
  /\ environment_ = NoEnvironment
  /\ <<"v">> \in DOMAIN options_
  /\ AbsentFromArgv(last.argv, options_[<<"v">>])
  /\ Len(last.argv) > 1
  /\ has_default(last, <<"v">>)
  /\ as(last, <<"v">>, store) = <<1, 4>>

IsCluster(tok) ==
  Len(tok) >= 3 /\ tok[1] = "-" /\ \A i \in 2..Len(tok) : isalnum(tok[i])

OptionOf(c) == options_[<<c>>]

DeclaredUpTo(seq, n) == \A j \in 1..n : <<seq[j]>> \in DOMAIN options_

\* The non-last characters without an implicit value that the scan reaches
\* through declared characters only (positions in seq).
Takers(seq) ==
  {i \in 1..(Len(seq) - 1) : DeclaredUpTo(seq, i) /\ ~OptionOf(seq[i]).value_.implicit_}

FirstTaker(seq) == CHOOSE k \in Takers(seq) : \A j \in Takers(seq) : k <= j

\* The implicit bindings of the characters 1..n of seq.
ImplicitBindings(seq, n) ==
  [i \in 1..n |-> <<OptionOf(seq[i]).long_, OptionOf(seq[i]).value_.implicit_value_>>]

\* The same call with the cluster replaced by its last character alone.
LastAlone(argv) ==
  LET single == <<"-", argv[2][Len(argv[2])]>>
      M == RunParse(Reg, FreshStore(Reg), <<Prog, single>> \o SubSeq(argv, 3, Len(argv)),
                    environment_, past_end_zero)
  IN Outcome(Reg, M)

Occurrences(sequential, key) == Len(ValuesOf(sequential, key))

C10_ShortCluster ==
  ( /\ nparses = 1 /\ Len(last.argv) >= 2 /\ IsCluster(last.argv[2])
    /\ \/ Takers(Tail(last.argv[2])) # {}
       \/ DeclaredUpTo(Tail(last.argv[2]), Len(last.argv[2]) - 1) ) =>
    LET seq == Tail(last.argv[2])
    IN IF Takers(seq) # {}
       THEN LET k == FirstTaker(seq)
                bound == ImplicitBindings(seq, k - 1)
                           \o << <<OptionOf(seq[k]).long_, SubSeq(seq, k + 1, Len(seq))>> >>
            IN /\ Returned(last) => IsPrefix(bound, last.sequential_)
               /\ Len(last.argv) = 2
                  => /\ Returned(last)
                     /\ last.sequential_ = bound
                     /\ \A i \in 1..k :
                          count(last, <<seq[i]>>)
                            = Cardinality({j \in 1..k : seq[j] = seq[i]})
                     /\ as(last, <<seq[k]>>, store) = SubSeq(seq, k + 1, Len(seq))
       ELSE LET bound == ImplicitBindings(seq, Len(seq) - 1)
                alone == LastAlone(last.argv)
            IN /\ last.err = alone.err
               /\ Returned(last)
                  => /\ last.sequential_ = bound \o alone.sequential_
                     /\ last.unmatched_ = alone.unmatched_
                     /\ last.consumed_arguments_ = alone.consumed_arguments_

C10_Witness ==
  /\ nparses = 1 /\ Returned(last)
  /\ last.argv = <<Prog, <<"-", "x", "x", "a", "v">> >>
  /\ count(last, <<"x">>) = 2
  /\ count(last, <<"a">>) = 1
  /\ as(last, <<"a">>, store) = <<"v">>

(***************************************************************************)
(* Vocabulary of the token walk: the run of Walker before and after a      *)
(* step, and the shapes of a token.                                        *)
(***************************************************************************)
Run == threads[Walker].run

\* An iteration of the token walk is about to run; Cur is its token.
Walking == threads[Walker].pc = "walk" /\ ~WalkDone(Run)

Cur == Arg(Run, Run.current)

HasNext == Run.current + 1 < argc(Run)

NextTok == Arg(Run, Run.current + 1)

DashDash == <<"-", "-">>

LongChar(c) == isalnum(c) \/ c = "-" \/ c = "_"

\* The position of the first `=` of the token, or one past its end.
FirstEq(tok) ==
  IF \E i \in DOMAIN tok : tok[i] = "="
  THEN CHOOSE i \in DOMAIN tok : tok[i] = "=" /\ \A j \in 1..(i - 1) : tok[j] # "="
  ELSE Len(tok) + 1

\* `--name` or `--name=value`: the name has two characters or more, starts
\* alphanumeric and goes on with alphanumerics, `-` and `_`.
IsLongToken(tok) ==
  /\ Len(tok) >= 4 /\ tok[1] = "-" /\ tok[2] = "-"
  /\ FirstEq(tok) >= 5
  /\ isalnum(tok[3])
  /\ \A i \in 4..(FirstEq(tok) - 1) : LongChar(tok[i])

LongTokenName(tok) == SubSeq(tok, 3, FirstEq(tok) - 1)

LongTokenHasValue(tok) == FirstEq(tok) <= Len(tok)

LongTokenValue(tok) == SubSeq(tok, FirstEq(tok) + 1, Len(tok))

\* `-c` with c alphanumeric or `?`, or `-abc` with alphanumerics only.
IsShortToken(tok) ==
  /\ Len(tok) >= 2 /\ tok[1] = "-"
  /\ IF Len(tok) = 2 THEN tok[2] = "?" \/ isalnum(tok[2])
     ELSE \A i \in 2..Len(tok) : isalnum(tok[i])

IsOptionToken(tok) == IsLongToken(tok) \/ IsShortToken(tok)

Declared(name) == name \in DOMAIN options_

\* The token starts with `-` and names a declared option: its long name, or
\* the first character of a short cluster.
NamesDeclared(tok) ==
  \/ IsLongToken(tok) /\ Declared(LongTokenName(tok))
  \/ IsShortToken(tok) /\ Declared(<<tok[2]>>)

\* A boolean with its automatic implicit value.
IsFlag(d) == Head(d.value_.type) = "bool" /\ d.value_.implicit_

\* The cluster loop reaches the last character of the short token: every
\* earlier character is bound to its implicit value, or is unknown and
\* tolerated.
ReachesLast(tok) ==
  \A i \in 2..(Len(tok) - 1) :
    IF Declared(<<tok[i]>>) THEN options_[<<tok[i]>>].value_.implicit_
    ELSE allow_unrecognised_

\* The token is given without `=value` and asks for the value of a
\* declared option: a long option, or the last character of a cluster.
Asks(tok) ==
  \/ IsLongToken(tok) /\ ~LongTokenHasValue(tok) /\ Declared(LongTokenName(tok))
  \/ IsShortToken(tok) /\ ReachesLast(tok) /\ Declared(<<tok[Len(tok)]>>)

Asked(tok) ==
  IF IsLongToken(tok) THEN options_[LongTokenName(tok)] ELSE options_[<<tok[Len(tok)]>>]

LastOf(seq) == seq[Len(seq)]

(***************************************************************************)
(* C11: no option swallows another.  A value-taking option given without   *)
(* `=value` binds its implicit value and leaves the next token, or raises  *)
(* missing_argument when it has no implicit value, if it is the last       *)
(* token, or the next token is `--`, or the next token starts with `-` and *)
(* names a declared option; in every other case the next token is bound as *)
(* its value and skipped.                                                  *)
(***************************************************************************)
\* The next token is left to the walk.
Stays ==
  \/ ~HasNext
  \/ NextTok = DashDash
  \/ NextTok # <<>> /\ Head(NextTok) = "-" /\ NamesDeclared(NextTok)

\* The step has bound text to the option d and moved on by n tokens.
BoundAndMoved(d, text, n) ==
  /\ Run'.err = ""
  /\ Len(Run'.sequential_) > Len(Run.sequential_)
  /\ LastOf(Run'.sequential_) = <<d.long_, text>>
  /\ Run'.current = Run.current + n

C11_NoSwallow ==
  [][(Walking /\ Asks(Cur) /\ ~IsFlag(Asked(Cur))) =>
       IF Stays
       THEN IF Asked(Cur).value_.implicit_
            THEN BoundAndMoved(Asked(Cur), Asked(Cur).value_.implicit_value_, 1)
            ELSE Run'.err = "missing_argument_error"
       ELSE IF ValidLiteral(Asked(Cur).value_, NextTok)
            THEN BoundAndMoved(Asked(Cur), NextTok, 2)
            ELSE Run'.err = "argument_incorrect_type"]_vars

\* `--av --zz`: the option-shaped token of an undeclared name is the value.
C11_Witness ==
  /\ threads[Walker].pc = "walk"
  /\ Run.argv = <<Prog, <<"-", "-", "a", "v">>, <<"-", "-", "z", "z">> >>
  /\ Run.sequential_ = << << <<"a", "v">>, <<"-", "-", "z", "z">> >> >>
  /\ Run.current = 3

(***************************************************************************)
(* C12: a boolean flag with its automatic implicit value, given without    *)
(* `=value` and followed by a plain token, is bound to "true" and leaves   *)
(* the token, which then goes to positional binding; a boolean declared    *)
(* with no_implicit_value() takes the next token as its value and raises   *)
(* missing_argument when it is the last token.                             *)
(***************************************************************************)
\* A token that does not start with `-`.
Plain(tok) == tok = <<>> \/ Head(tok) # "-"

True == <<"t", "r", "u", "e">>

IsBool(d) == Head(d.value_.type) = "bool"

C12_FlagStep ==
  (Walking /\ Asks(Cur) /\ IsBool(Asked(Cur))) =>
    IF IsFlag(Asked(Cur))
    THEN (HasNext /\ Plain(NextTok))
         => /\ BoundAndMoved(Asked(Cur), True, 1)
            /\ store'[Asked(Cur).id] = TRUE
            /\ Run'.unmatched = Run.unmatched
    ELSE IF ~HasNext THEN Run'.err = "missing_argument_error"
    ELSE (Plain(NextTok) /\ ValidLiteral(Asked(Cur).value_, NextTok))
         => /\ BoundAndMoved(Asked(Cur), NextTok, 2)
            /\ store'[Asked(Cur).id] = Converted(Asked(Cur).value_, <<NextTok>>)

\* The call [prog, flag, plain token] has returned on a registry whose
\* positional binding is the declared string option.
C12_FlagThenPositional ==
  ( /\ threads[Walker].pc = "done"
    /\ Len(Run.argv) = 3
    /\ IsShortToken(Run.argv[2]) /\ Len(Run.argv[2]) = 2
    /\ Declared(<<Run.argv[2][2]>>) /\ IsFlag(options_[<<Run.argv[2][2]>>])
    /\ Plain(Run.argv[3])
    /\ positional_ = << <<"a", "v">> >> /\ ~stop_on_positional_ ) =>
      /\ Returned(threads[Walker].result)
      /\ has(threads[Walker].result, <<Run.argv[2][2]>>)
      /\ count(threads[Walker].result, <<"a", "v">>) = 1
      /\ threads[Walker].read[<<"a", "v">>] = Run.argv[3]
      /\ threads[Walker].result.unmatched_ = <<>>

C13_EqualsValue ==
  [][( /\ Walking /\ IsLongToken(Cur) /\ LongTokenHasValue(Cur)
       /\ Declared(LongTokenName(Cur)) ) =>
       IF ValidLiteral(options_[LongTokenName(Cur)].value_, LongTokenValue(Cur))
       THEN /\ BoundAndMoved(options_[LongTokenName(Cur)], LongTokenValue(Cur), 1)
            /\ Len(Run'.sequential_) = Len(Run.sequential_) + 1
            /\ store'[options_[LongTokenName(Cur)].id]
                 = Converted(options_[LongTokenName(Cur)].value_, <<LongTokenValue(Cur)>>)
            /\ Run'.unmatched = Run.unmatched
       ELSE Run'.err = "argument_incorrect_type"]_vars

\* `--out=-- 0` and `--av=`: the value is `--`, the empty text.
C13_Witness ==
  /\ threads[Walker].pc = "walk"
  /\ Run.argv = <<Prog, <<"-", "-", "o", "u", "t", "=", "-", "-">>, <<"-", "-", "a", "v", "=">> >>
  /\ Run.sequential_ = << << <<"o", "u", "t">>, <<"-", "-">> >>, << <<"a", "v">>, <<>> >> >>
  /\ Run.current = 3
  /\ store[options_[<<"a", "v">>].id] = <<>>

(***************************************************************************)
(* C14: positional consumption.  Plain tokens are bound in argv order      *)
(* along the positional binding list with a cursor that never moves        *)
(* backwards: a container binding absorbs the token and keeps the cursor,  *)
(* a non-container binding absorbs it only if its option has no occurrence *)
(* so far in this parse and then the cursor advances, a non-container      *)
(* binding that already has an occurrence is skipped; with bindings a, b,  *)
(* c (c a container) and tokens 1 2 3 4: a = "1", b = "2", c = ["3","4"].  *)
(***************************************************************************)
Binding(k) == options_[positional_[k + 1]]

\* The binding at cursor position k absorbs a token now.
Absorbs(k) ==
  \/ is_container(Binding(k).value_.type)
  \/ Occurrences(Run.sequential_, Binding(k).long_) = 0

\* The cursor positions from the cursor on whose binding absorbs.
Absorbing == {k \in Run.next..(Len(positional_) - 1) : Absorbs(k)}

FirstAbsorbing == CHOOSE k \in Absorbing : \A j \in Absorbing : k <= j

C14_PlainStep ==
  (Walking /\ Plain(Cur)) =>
    IF Absorbing # {}
    THEN /\ BoundAndMoved(Binding(FirstAbsorbing), Cur, 1)
         /\ Len(Run'.sequential_) = Len(Run.sequential_) + 1
         /\ Run'.next = IF is_container(Binding(FirstAbsorbing).value_.type)
                        THEN FirstAbsorbing ELSE FirstAbsorbing + 1
         /\ Run'.unmatched = Run.unmatched
    ELSE /\ Run'.err = ""
         /\ Run'.sequential_ = Run.sequential_
         /\ Run'.unmatched = Append(Run.unmatched, Cur)

C14_CursorForward == Walking => Run'.next >= Run.next

C14_Example ==
  ( /\ threads[Walker].pc = "done"
    /\ Run.argv = <<Prog, <<"1">>, <<"2">>, <<"3">>, <<"4">> >>
    /\ positional_ = << <<"a", "a">>, <<"b", "b">>, <<"c", "c">> >> ) =>
      /\ Returned(threads[Walker].result)
      /\ threads[Walker].read[<<"a", "a">>] = <<"1">>
      /\ threads[Walker].read[<<"b", "b">>] = <<"2">>
      /\ threads[Walker].read[<<"c", "c">>] = << <<"3">>, <<"4">> >>
      /\ threads[Walker].result.unmatched_ = <<>>

C14_Positional ==
  [][C14_PlainStep /\ C14_CursorForward]_vars /\ []C14_Example

\* `--bb=9 1 2 3`: b is skipped, the container takes the second and third.
C14_Witness ==
  /\ threads[Walker].pc = "done"
  /\ Run.argv = <<Prog, <<"-", "-", "b", "b", "=", "9">>, <<"1">>, <<"2">>, <<"3">> >>
  /\ positional_ = << <<"a", "a">>, <<"b", "b">>, <<"c", "c">> >>
  /\ threads[Walker].read[<<"a", "a">>] = <<"1">>
  /\ threads[Walker].read[<<"b", "b">>] = <<"9">>
  /\ threads[Walker].read[<<"c", "c">>] = << <<"2">>, <<"3">> >>

(***************************************************************************)
(* C15: terminator semantics with stop-on-positional off.  After the first *)
(* `--` no later token is classified as an option, no option_syntax_error, *)
(* option_not_exists or missing_argument is raised for a later token       *)
(* whatever its shape, each later token is bound through positional        *)
(* consumption or appended to unmatched() in argv order, and the `--`      *)
(* itself appears in neither arguments() nor unmatched().                  *)
(***************************************************************************)
\* The tokens after the current one.
Rest == SubSeq(Run.argv, Run.current + 2, Len(Run.argv))

\* The raw texts the step has appended to arguments(), and to unmatched().
NewValues ==
  [i \in 1..(Len(Run'.sequential_) - Len(Run.sequential_)) |->
     Run'.sequential_[Len(Run.sequential_) + i][2]]

NewUnmatched == SubSeq(Run'.unmatched, Len(Run.unmatched) + 1, Len(Run'.unmatched))

\* The step on `--` has handed every later token, in order, to a positional
\* binding or to unmatched(), and has ended the walk.
RestAsPlainText ==
  /\ IsPrefix(Run.sequential_, Run'.sequential_)
  /\ IsPrefix(Run.unmatched, Run'.unmatched)
  /\ NewValues \o NewUnmatched = Rest
  /\ \A i \in 1..(Len(Run'.sequential_) - Len(Run.sequential_)) :
       Run'.sequential_[Len(Run.sequential_) + i][1] \in {Binding(k).long_ : k \in {j \in 0..(Len(positional_) - 1) : Declared(positional_[j + 1])}}
  /\ Run'.current = argc(Run)
  /\ WalkDone(Run')

AtTerminator == Walking /\ Cur = DashDash /\ ~stop_on_positional_

UndeclaredBindingAhead ==
  \E k \in Run.next..(Len(positional_) - 1) : ~Declared(positional_[k + 1])

RECURSIVE Reached(_, _)
Reached(tok, i) ==
  IF i > Len(tok) THEN {}
  ELSE IF Declared(<<tok[i]>>) /\ i < Len(tok) /\ ~options_[<<tok[i]>>].value_.implicit_
       THEN {i}
       ELSE {i} \cup Reached(tok, i + 1)

\* The positions of the unknown characters of a short token, in order.
UnknownChars(tok) == {i \in Reached(tok, 2) : ~Declared(<<tok[i]>>)}

RECURSIVE DashEach(_, _, _)
DashEach(tok, i, S) ==
  IF i > Len(tok) THEN <<>>
  ELSE IF i \in S THEN << <<"-", tok[i]>> >> \o DashEach(tok, i + 1, S)
       ELSE DashEach(tok, i + 1, S)

RECURSIVE Without(_, _, _)
Without(tok, i, S) ==
  IF i > Len(tok) THEN <<>>
  ELSE IF i \in S THEN Without(tok, i + 1, S)
       ELSE <<tok[i]>> \o Without(tok, i + 1, S)

UnknownLong(tok) == IsLongToken(tok) /\ ~Declared(LongTokenName(tok))

UnknownShort(tok) == IsShortToken(tok) /\ UnknownChars(tok) # {}

\* The cluster before its first unknown character binds implicit values only.
FirstUnknown(tok) == CHOOSE i \in UnknownChars(tok) : \A j \in UnknownChars(tok) : i <= j

C16_UnknownStep ==
  /\ (Walking /\ UnknownLong(Cur)) =>
        IF allow_unrecognised_
        THEN /\ Run'.err = ""
             /\ Run'.unmatched = Append(Run.unmatched, Cur)
             /\ Run'.sequential_ = Run.sequential_
             /\ Run'.current = Run.current + 1
        ELSE Run'.err = "option_not_exists_error"
  /\ (Walking /\ UnknownShort(Cur)) =>
        IF allow_unrecognised_
        THEN /\ Run'.err # "option_not_exists_error"
             /\ Run'.err = ""
                => /\ IsPrefix(Run.unmatched \o DashEach(Cur, 2, UnknownChars(Cur)),
                               Run'.unmatched)
                   /\ \A i \in 1..Len(Run'.sequential_) :
                        Run'.sequential_[i][2] \notin Range(DashEach(Cur, 2, UnknownChars(Cur)))
        ELSE Run'.err = "option_not_exists_error"

\* argv with the unknown parts of its first token taken out.
WithoutUnknown(argv) ==
  IF UnknownLong(argv[2]) THEN <<Prog>> \o SubSeq(argv, 3, Len(argv))
  ELSE IF Without(argv[2], 2, UnknownChars(argv[2])) = <<>>
       THEN <<Prog>> \o SubSeq(argv, 3, Len(argv))
       ELSE <<Prog, <<"-">> \o Without(argv[2], 2, UnknownChars(argv[2]))>>
              \o SubSeq(argv, 3, Len(argv))

\* A tolerant call whose first token holds an unknown name has ended as the
\* call without that name does, with the same bindings.
C16_DeclaredAsWithout ==
  ( /\ threads[Walker].pc = "done" /\ allow_unrecognised_
    /\ Len(Run.argv) >= 2
    /\ UnknownLong(Run.argv[2]) \/ UnknownShort(Run.argv[2]) ) =>
      LET without == Outcome(Reg, Alone(WithoutUnknown(Run.argv)))
      IN /\ threads[Walker].result.err = without.err
         /\ threads[Walker].result.sequential_ = without.sequential_

C16_Tolerance == [][C16_UnknownStep]_vars /\ []C16_DeclaredAsWithout

C16_UnknownSteps == [][C16_UnknownStep]_vars

(***************************************************************************)
(* C17: with tolerance enabled, every token that would raise               *)
(* option_syntax_error in strict mode (it starts with `-`, is longer than  *)
(* one character, is not `--` and fails the option grammar) raises nothing *)
(* and is accumulated in unmatched(); it is never bound to any option.     *)
(***************************************************************************)
Malformed(tok) ==
  /\ Len(tok) > 1 /\ Head(tok) = "-" /\ tok # DashDash
  /\ ~IsOptionToken(tok)

C17_MalformedTolerated ==
  [][(Walking /\ allow_unrecognised_ /\ Malformed(Cur)) =>
       /\ Run'.err = ""
       /\ Run'.unmatched = Append(Run.unmatched, Cur)
       /\ Run'.sequential_ = Run.sequential_]_vars

(***************************************************************************)
(* C18: with tolerance off, any token reached by the token walk that       *)
(* starts with `-`, has more than one character, is not `--` and fails the *)
(* option grammar (`--a`, `-x?`, `--a=0`) makes parse raise                *)
(* option_syntax_error, before positional absorption or the                *)
(* stop-on-positional halt is considered for that token.                   *)
(***************************************************************************)
C18_SyntaxError ==
  [][(Walking /\ ~allow_unrecognised_ /\ Malformed(Cur)) =>
       /\ Run'.err = "option_syntax_error"
       /\ ~Run'.brk
       /\ Run'.sequential_ = Run.sequential_
       /\ Run'.unmatched = Run.unmatched
       /\ Run'.next = Run.next
       /\ threads'[Walker].pc = "walk"]_vars

\* `-x --a=0` under stop-on-positional: the call throws on the second token.
C18_Witness ==
  /\ threads[Walker].pc = "done"
  /\ stop_on_positional_ /\ ~allow_unrecognised_
  /\ Run.argv = <<Prog, <<"-", "x">>, <<"-", "-", "a", "=", "0">> >>
  /\ threads[Walker].result.err = "option_syntax_error"

(***************************************************************************)
(* C19: stop-on-positional.  The token walk halts at the first plain token *)
(* (neither an option token nor consumed as an option's value); consumed() *)
(* is the index of that token, or the index just after `--` when `--` is   *)
(* met first; no token at or after that index is bound to an option or     *)
(* appears in unmatched(), and the options before it are bound normally.   *)
(***************************************************************************)
\* The step has ended the walk at index n and bound or set aside nothing.
HaltedAt(n) ==
  /\ Run'.err = "" /\ Run'.brk
  /\ Run'.current = n
  /\ Run'.sequential_ = Run.sequential_
  /\ Run'.unmatched = Run.unmatched

C19_StopStep ==
  (Walking /\ stop_on_positional_) =>
    IF Cur = DashDash THEN HaltedAt(Run.current + 1)
    ELSE IF IsOptionToken(Cur) THEN ~Run'.brk
    ELSE IF Malformed(Cur) /\ ~allow_unrecognised_
         THEN Run'.err = "option_syntax_error"
         ELSE HaltedAt(Run.current)

\* The call on the tokens before index n, without the mode.
BeforeStop(n) ==
  Outcome(Reg, RunParse([Reg EXCEPT !.stop_on_positional_ = FALSE], FreshStore(Reg),
                        SubSeq(Run.argv, 1, n), environment_, past_end_zero))

\* The walk was halted by a token before the end of argv.
HaltedEarly == Run.brk /\ Arg(Run, Run.current - 1) # DashDash

C19_StopOutcome ==
  ( /\ threads[Walker].pc = "done" /\ stop_on_positional_
    /\ Returned(threads[Walker].result) /\ Run.argv # NoArgv ) =>
      /\ threads[Walker].result.consumed_arguments_ = Run.current
      /\ Run.current <= argc(Run)
      /\ Run.current < argc(Run) =>
            /\ Run.brk
            /\ \/ Arg(Run, Run.current - 1) = DashDash
               \/ ~IsOptionToken(Arg(Run, Run.current)) /\ Arg(Run, Run.current) # DashDash
      /\ threads[Walker].result.sequential_ = BeforeStop(Run.current).sequential_
      /\ threads[Walker].result.unmatched_ = BeforeStop(Run.current).unmatched_

C19_StopOnPositional == [][C19_StopStep]_vars /\ []C19_StopOutcome

(***************************************************************************)
(* C20: consumed() is the index in argv where parsing stopped: in every    *)
(* successful parse with stop-on-positional off it equals argc, and in     *)
(* every mode and for every argc, argc == 0 included, it never exceeds     *)
(* argc.                                                                   *)
(***************************************************************************)
C20_Consumed ==
  (threads[Walker].pc = "done" /\ Returned(threads[Walker].result)) =>
    /\ ~stop_on_positional_
         => threads[Walker].result.consumed_arguments_ = argc(Run)
    /\ threads[Walker].result.consumed_arguments_ <= argc(Run)

(***************************************************************************)
(* Vocabulary of the declarations.                                         *)
(***************************************************************************)
\* This step is an option_adder call.
Declaring == declared'.n = declared.n + 1

\* The names the specifier of this step's call holds.
GivenNames ==
  LET spec == parse_option_specifier(declared'.text)
  IN IF spec.ok THEN {spec.s, spec.l} \ {<<>>} ELSE {}

\* The latest option_adder call registered its option.
Accepted == declared.n > 0 /\ declared.err = ""

(***************************************************************************)
(* C21: name uniqueness.  After any sequence of declare calls each         *)
(* registered name maps to exactly one descriptor, which holds that name   *)
(* and which no later declare replaces; a declare whose short or long name *)
(* is already registered fails with option_exists_error.                   *)
(***************************************************************************)
C21_OneDescriptor ==
  /\ \A n \in DOMAIN options_ : n # <<>> /\ n \in {options_[n].short_, options_[n].long_}
  /\ \A i, j \in DOMAIN iteration_ : iteration_[i] = iteration_[j] => i = j
  /\ {iteration_[i] : i \in DOMAIN iteration_} = DOMAIN options_

C21_DuplicateFails ==
  [][Declaring =>
       /\ \A n \in DOMAIN options_ : n \in DOMAIN options_' /\ options_'[n] = options_[n]
       /\ GivenNames \cap DOMAIN options_ # {} => declared'.err = "option_exists_error"]_vars

C21_NameUniqueness == C21_DuplicateFails /\ []C21_OneDescriptor

\* A declare failed because its long name was a name of an earlier option.
C21_Witness ==
  /\ declared.err = "option_exists_error"
  /\ declared.l \in DOMAIN options_
  /\ options_[declared.l].short_ # declared.s

(***************************************************************************)
(* C22: descriptor name invariant.  Every specifier that declare accepts   *)
(* yields a descriptor with at least one non-empty name, a short name of   *)
(* exactly one character (alphanumeric or `?`) when present and a long     *)
(* name of at least two characters when present; every other specifier     *)
(* text is rejected with invalid_option_format_error.                      *)
(***************************************************************************)
C22_DescriptorNames ==
  declared.n > 0 =>
    IF declared.err = ""
    THEN /\ declared.s # <<>> \/ declared.l # <<>>
         /\ declared.s # <<>> =>
              Len(declared.s) = 1 /\ (declared.s[1] = "?" \/ isalnum(declared.s[1]))
         /\ declared.l # <<>> => Len(declared.l) >= 2
         /\ \A n \in {declared.s, declared.l} \ {<<>>} :
              /\ n \in DOMAIN options_
              /\ options_[n].short_ = declared.s
              /\ options_[n].long_ = declared.l
    ELSE declared.err = "invalid_option_format_error"

\* The part of a specifier text that names the long form: the text after
\* `s,` and the spaces when the text starts with a short name and a comma,
\* the whole text when it is longer than one character.
LongPart(text) ==
  IF Len(text) >= 2 /\ text[2] = ","
  THEN SubSeq(text, skip_spaces(text, 3), Len(text))
  ELSE IF Len(text) >= 2 THEN text ELSE <<>>

\* The token `--name`.
AsLongToken(name) == <<"-", "-">> \o name

(***************************************************************************)
(* C23: declaring an option whose long name starts with `-` or `_` fails   *)
(* with invalid_option_format_error; every registered long name, written   *)
(* as `--name`, is matched by the argument grammar as that long name.      *)
(***************************************************************************)
C23_LongNameStart ==
  declared.n > 0 =>
    /\ (LongPart(declared.text) # <<>> /\ LongPart(declared.text)[1] \in {"-", "_"})
         => declared.err = "invalid_option_format_error"
    /\ \A n \in DOMAIN options_ :
         Len(n) > 1 =>
           /\ isalnum(n[1])
           /\ parse_argument(AsLongToken(n), past_end_zero).ok
           /\ parse_argument(AsLongToken(n), past_end_zero).is_long
           /\ parse_argument(AsLongToken(n), past_end_zero).name = n

\* The forms of test "Long and short options format", written with the
\* characters of the specifier texts: <<text, short name, long name>>.
AcceptedForms ==
  { << <<"a">>, <<"a">>, <<>> >>,
    << <<"a", "a">>, <<>>, <<"a", "a">> >>,
    << <<"a", ",", "a", "a">>, <<"a">>, <<"a", "a">> >>,
    << <<"a", ",", " ", "a", "a">>, <<"a">>, <<"a", "a">> >>,
    << <<"a", ",">>, <<"a">>, <<>> >> }

RejectedForms ==
  { <<>>, <<",">>, <<",", "a", "a">>, <<"a", "a", ",", "a">>, <<"a", "a", ",">> }

Spaces(k) == [i \in 1..k |-> " "]

(***************************************************************************)
(* C24: specifier order.  A specifier that names both forms is the short   *)
(* name, a comma, optional spaces and the long name, in that order; `s`,   *)
(* `long`, `s,long`, `s, long` and `s,` are accepted with the names they   *)
(* show, while the empty text, `,`, `,long`, `long,s` and `long,` are      *)
(* rejected with invalid_option_format_error and register nothing.         *)
(***************************************************************************)
C24_SpecifierOrder ==
  declared.n > 0 =>
    /\ \A f \in AcceptedForms :
         declared.text = f[1] =>
           /\ declared.err = "" /\ declared.s = f[2] /\ declared.l = f[3]
           /\ DOMAIN options_ = {f[2], f[3]} \ {<<>>}
    /\ declared.text \in RejectedForms =>
         /\ declared.err = "invalid_option_format_error"
         /\ options_ = <<>> /\ iteration_ = <<>>
    /\ (declared.err = "" /\ declared.s # <<>> /\ declared.l # <<>>) =>
         \E k \in 0..Len(declared.text) :
           declared.text = declared.s \o <<",">> \o Spaces(k) \o declared.l

\* The specifier `s, long` was accepted.
C24_Witness ==
  /\ declared.text = <<"a", ",", " ", "a", "a">>
  /\ declared.err = ""
  /\ DOMAIN options_ = {<<"a">>, <<"a", "a">>}

\* Names asked of a result: the names of both registries and one that no
\* registry declares.
ProbeNames ==
  { <<"z">>, <<"b", "a", "z">>, <<"f", "o", "o">>, <<"v">>,
    <<"v", "e", "c", "t", "o", "r">>, <<"q">> }

\* The names of the option that n names.
Aliases(n) == {options_[n].short_, options_[n].long_} \ {<<>>}

(***************************************************************************)
(* C25: in every Parse Result every declared short or long name resolves   *)
(* to an Option Value, given or not; both names of one option resolve to   *)
(* the same Option Value (equal count and value); for a name that was      *)
(* never declared result[name] raises option_not_present_error and         *)
(* count(name) is 0.                                                       *)
(***************************************************************************)
C25_NamesResolve ==
  Returned(last) =>
    /\ \A n \in DOMAIN options_ :
         /\ present(last, n)
         /\ \A m \in Aliases(n) :
              /\ present(last, m)
              /\ last.keys_[m] = last.keys_[n]
              /\ count(last, m) = count(last, n)
              /\ has_value(last, m) = has_value(last, n)
              /\ has_value(last, n) => as(last, m, store) = as(last, n, store)
    /\ \A n \in ProbeNames \ DOMAIN options_ :
         ~present(last, n) /\ count(last, n) = 0

\* A result in which an option with both names was not given and another
\* one was, and a probed name is not declared.
C25_Witness ==
  /\ Returned(last)
  /\ <<"z">> \in DOMAIN options_
  /\ count(last, <<"z">>) > 0
  /\ count(last, <<"f", "o", "o">>) = 0
  /\ ~present(last, <<"v">>)

(***************************************************************************)
(* C26: value storage is materialised lazily.  In every Parse Result an    *)
(* Option Value has a value exactly when its count is positive or its      *)
(* default was applied in this parse; as<T>() raises                       *)
(* option_has_no_value_error exactly when the option had no occurrence in  *)
(* argv, no default and no set environment variable in this parse,         *)
(* whatever earlier parses on the same registry bound.                     *)
(***************************************************************************)
C26_LazyValue ==
  Returned(last) =>
    \A n \in DOMAIN options_ :
      /\ has_value(last, n) <=> (count(last, n) > 0 \/ has_default(last, n))
      /\ ~has_value(last, n) <=>
           /\ AbsentFromArgv(last.argv, options_[n])
           /\ ~options_[n].value_.default_
           /\ ~EnvSet(options_[n])

\* The second parse left `value` without a value although the first parse
\* had bound it.
C26_Witness ==
  /\ nparses = 2
  /\ Returned(last)
  /\ ~has_value(last, <<"v", "a", "l", "u", "e">>)
  /\ store[options_[<<"v", "a", "l", "u", "e">>].id] = <<"a">>

(***************************************************************************)
(* Vocabulary of the conversions: the literal a text denotes, read with    *)
(* unbounded integers.                                                     *)
(***************************************************************************)
HexDigits == Range(DecChars) \cup Range(LowerHex) \cup Range(UpperHex)

SignOf(text) == IF text # <<>> /\ Head(text) \in {"+", "-"} THEN Head(text) ELSE ""

BodyOf(text) == IF SignOf(text) = "" THEN text ELSE Tail(text)

IsHexLiteral(body) ==
  /\ Len(body) >= 3 /\ body[1] = "0" /\ body[2] = "x"
  /\ \A i \in 3..Len(body) : body[i] \in HexDigits

IsDecimalLiteral(body) ==
  body # <<>> /\ \A i \in DOMAIN body : body[i] \in Range(DecChars)

\* An optional sign followed by decimal digits or by `0x` and hex digits.
IsLiteral(text) == IsHexLiteral(BodyOf(text)) \/ IsDecimalLiteral(BodyOf(text))

RECURSIVE DigitsValue(_, _, _)
DigitsValue(digits, base, acc) ==
  IF digits = <<>> THEN acc
  ELSE DigitsValue(Tail(digits), base, acc * base + DigitOf(Head(digits), base))

Magnitude(text) ==
  IF IsHexLiteral(BodyOf(text))
  THEN DigitsValue(SubSeq(BodyOf(text), 3, Len(BodyOf(text))), 16, 0)
  ELSE DigitsValue(BodyOf(text), 10, 0)

LiteralValue(text) == IF SignOf(text) = "-" THEN -Magnitude(text) ELSE Magnitude(text)

MinOf(T) == IF TypeSigned(T) THEN -Pow2(TypeBits(T) - 1) ELSE 0

MaxOf(T) == IF TypeSigned(T) THEN Pow2(TypeBits(T) - 1) - 1 ELSE Pow2(TypeBits(T)) - 1

\* The text converts to T by the reference.
Converts_ByReference(T, text) ==
  /\ IsLiteral(text)
  /\ MinOf(T) <= LiteralValue(text) /\ LiteralValue(text) <= MaxOf(T)
  /\ ~TypeSigned(T) => SignOf(text) # "-"

\* An integer conversion was made.
Did == converted.type # "none"

(***************************************************************************)
(* C27: integer conversion to int8 and uint8 agrees with the mathematical  *)
(* reference: it succeeds exactly when the text is an optional sign        *)
(* followed by decimal digits or by `0x` and hex digits, the value lies in *)
(* the range of the type and an unsigned target has no `-` sign, and the   *)
(* result is then that value.  For int8: 127, -128, 0x7f, -0x80 are        *)
(* accepted, 128, -129, 0x80, -0x81 are rejected, and so are the texts "", *)
(* "-", "+", "0x", "-0x", "+0x".                                           *)
(***************************************************************************)
C27_Int8Accepted ==
  { <<"1", "2", "7">>, <<"-", "1", "2", "8">>, <<"0", "x", "7", "f">>,
    <<"-", "0", "x", "8", "0">> }

C27_Int8Rejected ==
  { <<"1", "2", "8">>, <<"-", "1", "2", "9">>, <<"0", "x", "8", "0">>,
    <<"-", "0", "x", "8", "1">>, <<>>, <<"-">>, <<"+">>, <<"0", "x">>,
    <<"-", "0", "x">>, <<"+", "0", "x">> }

C27_NarrowConversion ==
  (Did /\ converted.type \in NarrowTypes) =>
    /\ converted.ok <=> Converts_ByReference(converted.type, converted.text)
    /\ converted.ok => converted.v = LiteralValue(converted.text)
    /\ (converted.type = "int8" /\ converted.text \in C27_Int8Accepted) => converted.ok
    /\ (converted.type = "int8" /\ converted.text \in C27_Int8Rejected) => ~converted.ok

\* The smallest int8 was converted from its hex literal.
C27_Witness ==
  /\ converted.type = "int8"
  /\ converted.text = <<"-", "0", "x", "8", "0">>
  /\ converted.ok /\ converted.v = -128

\* The largest value the accumulator of parse_uint64 holds.
AccMax == Pow2(AccBits) - 1

(***************************************************************************)
(* C28: accumulator overflow is always detected.  Every decimal or hex     *)
(* literal whose magnitude exceeds the accumulator's maximum is rejected,  *)
(* and a conversion to a target as wide as the accumulator never succeeds  *)
(* with a wrapped-around value: when it succeeds the result is the value   *)
(* of the literal.                                                         *)
(***************************************************************************)
C28_OverflowDetected ==
  Did =>
    /\ (IsLiteral(converted.text) /\ Magnitude(converted.text) > AccMax) => ~converted.ok
    /\ (converted.type \in WideTypes /\ converted.ok) =>
         converted.v = LiteralValue(converted.text)

(***************************************************************************)
(* Vocabulary of the list options.                                         *)
(***************************************************************************)
IsList(d) == is_container(d.value_.type)

\* The token is `--name=` with nothing after the `=`, for a declared list.
EmptyByEquals ==
  /\ Walking /\ IsLongToken(Cur) /\ LongTokenHasValue(Cur) /\ LongTokenValue(Cur) = <<>>
  /\ Declared(LongTokenName(Cur)) /\ IsList(options_[LongTokenName(Cur)])

\* The token asks for the value of a declared list and the next token is
\* the empty string.
EmptyByNext ==
  Walking /\ Asks(Cur) /\ IsList(Asked(Cur)) /\ HasNext /\ NextTok = <<>>

\* The token is the empty string and the binding that absorbs it is a list.
EmptyPositional ==
  Walking /\ Cur = <<>> /\ Absorbing # {} /\ IsList(Binding(FirstAbsorbing))

\* The step has appended one default-constructed element to the value of
\* the list d, raised nothing and moved on by n tokens.
AppendedDefault(d, n) ==
  /\ Run'.err = ""
  /\ store'[d.id] = Append(store[d.id], DefaultConstructed(Tail(d.value_.type)))
  /\ LastOf(Run'.sequential_) = <<d.long_, <<>> >>
  /\ Run'.current = Run.current + n

\* The tokens after `--` are integers and empty strings, and the binding
\* that absorbs them is a list.
PlainRest ==
  /\ AtTerminator /\ Rest # <<>>
  /\ \A i \in DOMAIN Rest : Rest[i] \in {<<>>, <<"1">>}
  /\ Absorbing # {} /\ IsList(Binding(FirstAbsorbing))

\* The elements the tokens after `--` stand for, an empty one as 0.
RestElements == [i \in DOMAIN Rest |-> IF Rest[i] = <<>> THEN 0 ELSE 1]

HasEmptySegment(text) ==
  \E i \in DOMAIN text : text[i] = "," /\ (i = 1 \/ text[i - 1] = ",")

\* The token asks for the value of a declared list of integers and the
\* next token is a delimited value with an empty segment.
EmptySegmentNext ==
  /\ Walking /\ Asks(Cur) /\ IsList(Asked(Cur)) /\ HasNext
  /\ HasEmptySegment(NextTok)

\* An empty token is among the positional values after `--`, which a list
\* of integers absorbs.
EmptyAmongRest ==
  /\ AtTerminator /\ \E i \in DOMAIN Rest : Rest[i] = <<>>
  /\ Absorbing # {} /\ IsList(Binding(FirstAbsorbing))

C30_EmptySegment ==
  [][EmptySegmentNext => Run'.err = "argument_incorrect_type"]_vars

(***************************************************************************)
(* C30: binding a list of integers to text with an empty element fails     *)
(* with argument_incorrect_type: a delimited value with an empty segment   *)
(* (`--ints 1,,4`) and an empty positional token among the positional      *)
(* values (`-- 1 "" 4`) both make parse raise argument_incorrect_type.     *)
(***************************************************************************)
C30_EmptyElementRejected ==
  [][/\ EmptySegmentNext => Run'.err = "argument_incorrect_type"
     /\ EmptyAmongRest => Run'.err = "argument_incorrect_type"]_vars

(***************************************************************************)
(* Vocabulary of container accumulation.                                   *)
(***************************************************************************)
\* The token is `--name=text` with a non-empty text for a declared list.
ListOccurrence ==
  /\ Walking /\ IsLongToken(Cur) /\ LongTokenHasValue(Cur) /\ LongTokenValue(Cur) # <<>>
  /\ Declared(LongTokenName(Cur)) /\ IsList(options_[LongTokenName(Cur)])

ListGiven == options_[LongTokenName(Cur)]

\* The elements the step has put after the ones the list held.
Appended ==
  SubSeq(store'[ListGiven.id], Len(store[ListGiven.id]) + 1, Len(store'[ListGiven.id]))

\* The segments written one after the other with the delimiter between.
RECURSIVE Join(_, _)
Join(segments, del) ==
  IF segments = <<>> THEN <<>>
  ELSE IF Len(segments) = 1 THEN Head(segments)
  ELSE Head(segments) \o <<del>> \o Join(Tail(segments), del)

\* The segments are what the text holds between its delimiters: they have
\* no delimiter inside and, joined, give the text back (less a delimiter
\* that ends it).
SegmentsOf(segments, text, del) ==
  /\ \A i \in DOMAIN segments : \A j \in DOMAIN segments[i] : segments[i][j] # del
  /\ IF LastOf(text) = del THEN Join(segments, del) \o <<del>> = text
     ELSE Join(segments, del) = text

(***************************************************************************)
(* C31: container accumulation within one parse on a fresh registry.  Each *)
(* occurrence of a container option appends its elements after those of    *)
(* all earlier occurrences; a non-empty text is split only on the option's *)
(* delimiter (with `;`, `a;b;c` gives three elements and `x,y,z` one); a    *)
(* list of lists gets exactly one inner list per occurrence; count() is    *)
(* the number of occurrences, not of elements.                             *)
(***************************************************************************)
C31_Accumulation ==
  [][ListOccurrence =>
       /\ Run'.err = ""
       /\ IsPrefix(store[ListGiven.id], store'[ListGiven.id])
       /\ Slot(Run', ListGiven.hash_).count_ = Slot(Run, ListGiven.hash_).count_ + 1
       /\ IF is_container(Tail(ListGiven.value_.type))
          THEN Len(Appended) = 1
          ELSE SegmentsOf(Appended, LongTokenValue(Cur), ListGiven.value_.delimiter)
       /\ LongTokenValue(Cur) = <<"a", ";", "b", ";", "c">>
            => Appended = << <<"a">>, <<"b">>, <<"c">> >>
       /\ LongTokenValue(Cur) = <<"x", ",", "y", ",", "z">>
            => Appended = << <<"x", ",", "y", ",", "z">> >>
       /\ LongTokenValue(Cur) = <<"1", ",", "2">> => Appended = << <<1, 2>> >>]_vars

\* `--test=a;b;c --test=x,y,z`: four elements in argv order, count 2.
C31_Witness ==
  /\ threads[Walker].pc = "done"
  /\ threads[Walker].result.err = ""
  /\ store[options_[<<"t">>].id]
       = << <<"a">>, <<"b">>, <<"c">>, <<"x", ",", "y", ",", "z">> >>
  /\ count(threads[Walker].result, <<"t">>) = 2

(***************************************************************************)
(* Vocabulary of the undeclared positional bindings.                       *)
(***************************************************************************)
\* The step hands its token to positional consumption: the token is plain,
\* or a lone `-` the grammar did not match, or malformed and tolerated.
PlacesToken ==
  /\ Walking /\ ~stop_on_positional_
  /\ \/ Plain(Cur)
     \/ Cur = <<"-">> /\ past_end_zero
     \/ allow_unrecognised_ /\ Malformed(Cur)

\* From the cursor on, the first binding that is not a declared scalar
\* already given names no declared option.
ReachesUndeclared ==
  \E k \in Run.next..(Len(positional_) - 1) :
    /\ ~Declared(positional_[k + 1])
    /\ \A j \in Run.next..(k - 1) :
         /\ Declared(positional_[j + 1])
         /\ ~IsList(options_[positional_[j + 1]])
         /\ Slot(Run, options_[positional_[j + 1]].hash_).count_ > 0

\* The step raised option_not_exists_error and put the token nowhere.
RaisedNotExists ==
  /\ Run'.err = "option_not_exists_error"
  /\ Run'.unmatched = Run.unmatched
  /\ Run'.sequential_ = Run.sequential_

(***************************************************************************)
(* C32: a positional binding that names an undeclared option is a hard     *)
(* error.  Whenever positional consumption reaches such a name while       *)
(* placing a token, before or after `--`, parse raises                     *)
(* option_not_exists_error, in strict and in tolerant mode; the token is   *)
(* not left in unmatched() and the name is not skipped.                    *)
(***************************************************************************)
C32_UndeclaredBinding ==
  [][/\ (PlacesToken /\ ReachesUndeclared) => RaisedNotExists
     /\ (AtTerminator /\ Rest # <<>> /\ ReachesUndeclared) => RaisedNotExists]_vars

\* In tolerant mode the first token was bound to `av` and the second
\* reached the undeclared name.
C32_Witness ==
  /\ allow_unrecognised_
  /\ Run.err = "option_not_exists_error"
  /\ Len(Run.sequential_) = 1
  /\ Run.next = 1

(***************************************************************************)
(* Vocabulary of the consumed log: the entries one token adds.             *)
(***************************************************************************)
\* The raw text bound to d when its token carries no `=value`.
TextFor(d) ==
  IF IsFlag(d) \/ (d.value_.implicit_ /\ Stays) THEN d.value_.implicit_value_ ELSE NextTok

\* The entries of the characters i.. of the short cluster tok, in order.
RECURSIVE ClusterLog(_, _)
ClusterLog(tok, i) ==
  IF i > Len(tok) THEN <<>>
  ELSE IF ~Declared(<<tok[i]>>) THEN ClusterLog(tok, i + 1)
  ELSE LET d == OptionOf(tok[i])
       IN IF i = Len(tok) THEN << <<d.long_, TextFor(d)>> >>
          ELSE IF d.value_.implicit_
               THEN << <<d.long_, d.value_.implicit_value_>> >> \o ClusterLog(tok, i + 1)
               ELSE << <<d.long_, SubSeq(tok, i + 1, Len(tok))>> >>

\* The entries of the plain tokens absorbed positionally, in order, with
\* the cursor at k and the log as it is.
RECURSIVE AbsorbedLog(_, _, _)
AbsorbedLog(tokens, k, log) ==
  LET free == {j \in k..(Len(positional_) - 1) :
                 \/ IsList(Binding(j))
                 \/ Occurrences(log, Binding(j).long_) = 0}
      j == CHOOSE m \in free : \A n \in free : m <= n
      entry == <<Binding(j).long_, Head(tokens)>>
  IN IF tokens = <<>> \/ free = {} THEN <<>>
     ELSE <<entry>> \o AbsorbedLog(Tail(tokens), IF IsList(Binding(j)) THEN j ELSE j + 1,
                                   Append(log, entry))

\* The entries the iteration on the current token adds when it succeeds.
TokenLog ==
  IF Cur = DashDash THEN AbsorbedLog(Rest, Run.next, Run.sequential_)
  ELSE IF IsLongToken(Cur)
  THEN IF ~Declared(LongTokenName(Cur)) THEN <<>>
       ELSE << <<Asked(Cur).long_,
                 IF LongTokenHasValue(Cur) THEN LongTokenValue(Cur) ELSE TextFor(Asked(Cur))>> >>
  ELSE IF IsShortToken(Cur) THEN ClusterLog(Cur, 2)
  ELSE AbsorbedLog(<<Cur>>, Run.next, Run.sequential_)

\* The walk is over and the default/environment pass is about to run.
AtReturn == threads[Walker].pc = "walk" /\ WalkDone(Run)

(***************************************************************************)
(* C33: ordering of the consumed log.  arguments() holds one entry per     *)
(* value bound from argv (explicit, implicit, positional), in the          *)
(* left-to-right order of the tokens and, within a short cluster, of its   *)
(* characters; the key of an entry is the long name of the bound option,   *)
(* also when it was given by its short name, and its value is the raw text *)
(* bound; defaults and environment fallbacks add no entry.                 *)
(***************************************************************************)
C33_ConsumedLog ==
  [][/\ (Walking /\ Run'.err = "") => Run'.sequential_ = Run.sequential_ \o TokenLog
     /\ AtReturn => /\ Run'.sequential_ = Run.sequential_
                    /\ Returned(threads'[Walker].result)
                         => threads'[Walker].result.sequential_ = Run.sequential_]_vars

\* `-ox 0` with CXXOPTS_FOO set: the cluster gives two entries in character
\* order, the plain token the third; `num` and `def` hold a value and give
\* none.
C33_Witness ==
  /\ threads[Walker].pc = "done"
  /\ environment_ = SetEnvironment
  /\ Returned(threads[Walker].result)
  /\ threads[Walker].result.sequential_
       = << <<<<"o", "u", "t">>, <<"i">>>>, <<<<>>, <<"t", "r", "u", "e">>>>,
            <<<<"a", "v">>, <<"0">>>> >>
  /\ count(threads[Walker].result, <<"n", "u", "m">>) = 1
  /\ has_default(threads[Walker].result, <<"d", "e", "f">>)

\* The step has put the current token in unmatched() and moved on.
LeftUnmatched ==
  /\ Run'.err = ""
  /\ Run'.sequential_ = Run.sequential_
  /\ Run'.unmatched = Append(Run.unmatched, Cur)
  /\ Run'.current = Run.current + 1

\* The step has bound the current token to a positional binding.
BoundPositionally ==
  /\ Run'.err = ""
  /\ Len(Run'.sequential_) = Len(Run.sequential_) + 1
  /\ LastOf(Run'.sequential_)[2] = Cur
  /\ LastOf(Run'.sequential_)[1] \in Range(positional_)
  /\ Run'.unmatched = Run.unmatched
  /\ Run'.current = Run.current + 1

(***************************************************************************)
(* C34: a lone `-` and the empty string are plain tokens in every mode.    *)
(* The grammar matcher classifies them as not-an-option, they never raise  *)
(* option_syntax_error, they are never dropped, and each is bound through  *)
(* positional consumption or appended to unmatched(), or halts the walk in *)
(* stop-on-positional mode.  (Positional bindings that name an undeclared  *)
(* option raise option_not_exists_error and are left aside here.)          *)
(***************************************************************************)
C34_PlainTokens ==
  [][(Walking /\ Cur \in {<<"-">>, <<>>} /\ ~ReachesUndeclared) =>
       /\ ~parse_argument(Cur, past_end_zero).ok
       /\ Run'.err # "option_syntax_error"
       /\ IF stop_on_positional_ THEN HaltedAt(Run.current)
          ELSE BoundPositionally \/ LeftUnmatched]_vars

(***************************************************************************)
(* Vocabulary of the independence of options.                              *)
(***************************************************************************)
\* The descriptors d and e have no name in common.
Distinct(d, e) == ({d.short_, d.long_} \cap {e.short_, e.long_}) \ {<<>>} = {}

\* The declared descriptors.
Descriptors == {options_[n] : n \in DOMAIN options_}

\* The iteration binds a value to d: its token names d and the step has
\* logged an entry of d.
Binds(d) ==
  /\ Walking
  /\ Asks(Cur) \/ (IsLongToken(Cur) /\ Declared(LongTokenName(Cur)))
  /\ Asked(Cur) = d
  /\ Run'.err = ""
  /\ Len(Run'.sequential_) = Len(Run.sequential_) + 1

\* count(), has_value() and has_default() of e are what they were.
Untouched(e) ==
  /\ Slot(Run', e.hash_).count_ = Slot(Run, e.hash_).count_
  /\ Slot(Run', e.hash_).default_ = Slot(Run, e.hash_).default_
  /\ (Slot(Run', e.hash_).value_ = 0) = (Slot(Run, e.hash_).value_ = 0)

(***************************************************************************)
(* C35: independence of options.  Any two distinct declared options        *)
(* (descriptors with no name in common) have distinct identity keys and    *)
(* separate per-parse Option Values, so binding a value to one never       *)
(* changes count(), has_value() or has_default() of the other; this holds  *)
(* also when the long name concatenated with the short name gives the same *)
(* string for both (long `abc` versus long `ab` with short `c`).           *)
(***************************************************************************)
C35_Independence ==
  [][\A d, e \in Descriptors :
       (Distinct(d, e) /\ Binds(d)) => (d.hash_ # e.hash_ /\ Untouched(e))]_vars

(***************************************************************************)
(* C36: a declare call that fails, with option_exists_error because its    *)
(* short or its long name is already registered or with                    *)
(* invalid_option_format_error, leaves the registry unchanged: no name of  *)
(* the rejected option becomes resolvable by a later parse and the names   *)
(* registered before keep resolving to their descriptors.                  *)
(***************************************************************************)
C36_FailedDeclare ==
  [][(Declaring /\ declared'.err # "") =>
       /\ DOMAIN options_' = DOMAIN options_
       /\ \A n \in DOMAIN options_ : options_'[n] = options_[n]]_vars

(***************************************************************************)
(* Vocabulary of the occurrence accounting.                                *)
(***************************************************************************)
\* A name of the descriptor d.
NameOf(d) == IF d.long_ # <<>> THEN d.long_ ELSE d.short_

\* The result the caller of the walk holds.
Result == threads[Walker].result

\* The environment variable of an option not bound from argv was read.
EnvApplied ==
  \E d \in Descriptors :
    d.value_.env_ /\ EnvSet(d) /\ Occurrences(Result.sequential_, d.long_) = 0

\* The sum of count() over the descriptors of S.
RECURSIVE SumOfCounts(_)
SumOfCounts(S) ==
  IF S = {} THEN 0
  ELSE LET d == CHOOSE e \in S : TRUE
       IN count(Result, NameOf(d)) + SumOfCounts(S \ {d})

(***************************************************************************)
(* C37: occurrence accounting.  In every Parse Result of a parse in which  *)
(* no environment fallback was applied, the number of entries of           *)
(* arguments() is the sum of count() over the distinct declared options,   *)
(* and count() of each option is the number of entries bound to it.        *)
(***************************************************************************)
C37_Accounting ==
  (threads[Walker].pc = "done" /\ Returned(Result) /\ ~EnvApplied) =>
    /\ Len(Result.sequential_) = SumOfCounts(Descriptors)
    /\ \A d \in Descriptors :
         count(Result, NameOf(d)) = Occurrences(Result.sequential_, d.long_)

(***************************************************************************)
(* Vocabulary of the stop point: the first token of an argument vector     *)
(* that is not an option token and not the value of the option before it.  *)
(***************************************************************************)
\* The option token at position i of argv takes the token after it as its
\* value.
TakesValue(argv, i) ==
  /\ Asks(argv[i]) /\ ~IsFlag(Asked(argv[i]))
  /\ i < Len(argv)
  /\ argv[i + 1] # DashDash
  /\ ~(argv[i + 1] # <<>> /\ Head(argv[i + 1]) = "-" /\ NamesDeclared(argv[i + 1]))

\* The position in argv of the stop point looked for from position i on,
\* or 0 when there is none.
RECURSIVE StopPoint(_, _)
StopPoint(argv, i) ==
  IF i > Len(argv) THEN 0
  ELSE IF ~IsOptionToken(argv[i]) THEN i
  ELSE IF TakesValue(argv, i) THEN StopPoint(argv, i + 2)
  ELSE StopPoint(argv, i + 1)

\* The argument vectors that are argv up to and including its stop point.
SameToStop(argv) ==
  {other \in WalkArgvs(Reg) :
     /\ StopPoint(argv, 2) > 0
     /\ Len(other) >= StopPoint(argv, 2)
     /\ SubSeq(other, 1, StopPoint(argv, 2)) = SubSeq(argv, 1, StopPoint(argv, 2))}

\* The run of the call on argv.
RunOn(argv) == RunParse(Reg, FreshStore(Reg), argv, environment_, past_end_zero)

\* The outcome of a run without the argument vector it was given.
Observed(M) == [Outcome(Reg, M) EXCEPT !.argv = <<>>]

(***************************************************************************)
(* C38: in stop-on-positional mode the outcome depends only on the tokens  *)
(* before the stop point: two argument vectors that are equal up to and    *)
(* including the first plain token (or the first `--`) give the same       *)
(* outcome, the same error or the same counts, values, arguments(),        *)
(* unmatched() and consumed(), whatever tokens follow.                     *)
(***************************************************************************)
C38_PrefixDetermines ==
  (threads[Walker].pc = "done" /\ stop_on_positional_ /\ Run.argv # NoArgv) =>
    \A other \in SameToStop(Run.argv) :
      /\ Observed(RunOn(other)) = [Result EXCEPT !.argv = <<>>]
      /\ Returned(Result) => RunOn(other).store = store

(***************************************************************************)
(* Vocabulary of termination.                                              *)
(***************************************************************************)
\* The iteration has halted the walk in stop-on-positional mode.
Halted == stop_on_positional_ /\ Run'.brk

\* The call has been entered and has not finished.
Entered == threads[Walker].pc = "walk"

\* The call has returned a result or raised an error.
Finished == threads[Walker].pc = "done"

\* The token index stays within argv.
IndexInArgv == (Run.argv # NoArgv) => (1 <= Run.current /\ Run.current <= argc(Run))

\* A step of the call once it is entered: an iteration of the walk or the
\* return.  From a state in which the call is entered exactly one of Token
\* and End can run, and each of them changes the record of Walker.
Going == Entered /\ threads'[Walker] # threads[Walker]

\* SpecWalk for a call that goes on once it is entered: parse is sequential
\* code, so the iteration or the return that can run does run, while
\* nothing makes a caller call.  This is weak fairness of Token \/ End,
\* WF_vars(Token \/ End), written out with Entered for ENABLED and Going for
\* the steps.
SpecTerm == InitWalk /\ [][NextWalk]_vars /\ ([]<>~Entered \/ []<><<Going>>_vars)

====
